---- MODULE Spec2Model ----
(***************************************************************************)
(* Buddy allocation tree of kernel/crates/buddy-alloc (src/tree.rs).       *)
(*                                                                         *)
(* The tree is a complete binary tree of block states packed into a bit    *)
(* buffer: two bits per non-leaf block, one bit per leaf block.            *)
(* Tree::allocate and Tree::free are modelled on the bit buffer itself,    *)
(* through the accessors state / set_state, the pre-order walk and the     *)
(* buddies iterator, as the source computes them.                          *)
(*                                                                         *)
(* The page allocator of kernel/crates/allocator (src/lib.rs) wraps such a *)
(* tree over the pages of a memory range: Allocator::new sizes the tree    *)
(* and the heap, Allocator::allocate and Allocator::free translate between *)
(* page pointers and the tree's offsets.                                   *)
(***************************************************************************)
EXTENDS Integers, Sequences, FiniteSets, TLC

\* ------------------------------------------------------------------ bounds
\* Largest leaf_blocks handed to Tree::new: 5 leaf blocks need a tree of
\* 8 leaves (depth 3), the tree of the source's tests.
MaxLeafBlocks == 5
\* Largest size handed to Tree::allocate; above the capacity of every tree.
MaxSize == 9
\* Largest offset handed to Tree::free; above the extent of every tree.
MaxOffset == 9
\* Largest end handed to Allocator::new, in pages from the base: 5 pages,
\* the range of the source's heap_overflow test, and a tree of 8 leaves.
MaxEndPage == 5
\* Most allocations held at a time on the ranges of the allocator's tests:
\* the four that tests::allocator holds when it returns (a1, a3, a4, a5).
MaxLive == 4
\* Largest leaf_blocks handed to Tree::storage_bits_required: trees of up to
\* 128 leaves.
MaxSizedLeafBlocks == 128
\* Widest buffer handed to Tree::new, in bytes: one byte more than the 22
\* bits of a tree of 8 leaves take.
MaxBufferBytes == 4
\* Most blocks at which a visitor handed to Tree::preorder does not descend:
\* the two skipped blocks of the source's preorder_skip test.
MaxMarked == 2
\* Largest block index handed to the functions of BlockIndex: the blocks of
\* a tree of depth 6.
MaxBlockIndex == 126
\* Most calls of Tree::set_state made in a row on a new tree.
MaxSetStateCalls == 2
\* Most timer interrupts taken after Scheduler::start: fifteen rounds of the
\* four values of current_index.
MaxScheduleCalls == 60
\* Threads that use one RawSpinlock.
MaxThreads == 3
\* Most failed attempts that are counted for a thread spinning in lock().
MaxSpins == 2

\* ------------------------------------------------------- program constants
NONLEAF_BITS == 2
LEAF_BITS == 1

\* ------------------------------------------------------- integer helpers
RECURSIVE ilog2(_)
\* usize::ilog2 for n >= 1: floor of the base-2 logarithm.
ilog2(n) == IF n <= 1 THEN 0 ELSE 1 + ilog2(n \div 2)

RECURSIVE next_power_of_two(_)
\* usize::next_power_of_two: smallest power of two >= n (1 for n = 0).
next_power_of_two(n) ==
    IF n <= 1 THEN 1 ELSE 2 * next_power_of_two((n + 1) \div 2)

\* x << k on usize.  The shifts the tree performs move a block offset or 1 by
\* a height of at most the tree depth, so the result stays below the extent
\* of the tree and never reaches the width of usize.
Shl(x, k) == x * (2 ^ k)

\* a - b on usize (64 bits wide) where overflow wraps.  A wrapped difference
\* is 2^64 + (a - b), beyond the integers of the model checker, and is kept
\* as the flag wrapped with the (negative) mathematical difference.
wrapping_sub(a, b) == [wrapped |-> a < b, value |-> a - b]

\* x == y for a block depth x (below 64) and a difference y of wrapping_sub
\* whose operands are at most 64: a wrapped difference is at least 2^64 - 64,
\* so it equals no such x.
EqualsDifference(x, y) == ~y.wrapped /\ x = y.value

\* ------------------------------------------------------- Option<T>
None == << >>
Some(x) == << x >>
IsSome(o) == o # None
Unwrap(o) == o[1]

\* ------------------------------------------------------- BlockState
BlockStates == {"Free", "Allocated", "Superblock", "SuperblockFull"}

\* ------------------------------------------------------- BlockIndex
root == 0
is_root(b) == b = 0
\* BlockIndex::superblock of a non-root block.
superblock(b) == IF ~is_root(b) THEN Some((b - 1) \div 2) ELSE None
\* Mutant of buddy: the low bit of b itself is flipped.
buddy_unshifted(b) ==
    IF ~is_root(b)
    THEN Some(IF b % 2 = 0 THEN b + 1 ELSE b - 1)
    ELSE None

\* ((b - 1) ^ 1) + 1: flipping the low bit of b - 1.
buddy(b) ==
    IF ~is_root(b)
    THEN Some((IF (b - 1) % 2 = 0 THEN (b - 1) + 1 ELSE (b - 1) - 1) + 1)
    ELSE None
\* Mutant of subblocks: the two sub-blocks in the wrong order.
subblocks_swapped(b) == << 2 * b + 2, 2 * b + 1 >>

subblocks(b) == << 2 * b + 1, 2 * b + 2 >>
BlockDepth(b) == ilog2(b + 1)
BlockOffset(b) == b + 1 - 2 ^ BlockDepth(b)

\* ------------------------------------------------------- Tree
\* A tree is the record of the fields of struct Tree; storage is the bit
\* slice, a function from bit index to BOOLEAN.
\* Tree::storage_bits_required panics unless leaf_blocks > 0.
storage_bits_required_panics(leaf_blocks) == ~(leaf_blocks > 0)

\* Mutant of storage_bits_required: leaf_blocks is not rounded up.
storage_bits_required_unrounded(leaf_blocks) ==
    (leaf_blocks - 1) * NONLEAF_BITS + leaf_blocks * LEAF_BITS

\* Mutant of storage_bits_required: two bits for every block, leaves too.
storage_bits_required_uniform(leaf_blocks) ==
    (2 * next_power_of_two(leaf_blocks) - 1) * NONLEAF_BITS

\* Tree::storage_bits_required for leaf_blocks > 0.
storage_bits_required(leaf_blocks) ==
    LET rounded == next_power_of_two(leaf_blocks)
        nonleaf_blocks == rounded - 1
    IN  nonleaf_blocks * NONLEAF_BITS + rounded * LEAF_BITS

block_count(t) == 2 ^ (t.depth + 1) - 1
has_block(t, b) == b < block_count(t)

\* Mutant of TreeNewPanics: the bytes of the buffer are compared with the
\* bits required.
TreeNewPanicsCountingBytes(buffer, leaf_blocks) ==
    \/ ~(leaf_blocks > 0)
    \/ ~(Cardinality(DOMAIN buffer) \div 8
             >= (next_power_of_two(leaf_blocks) - 1) * NONLEAF_BITS
                    + next_power_of_two(leaf_blocks) * LEAF_BITS)

\* Tree::new panics unless leaf_blocks > 0 and the buffer, given as its
\* bits, is at least storage_bits_required(leaf_blocks) bits wide.
TreeNewPanics(buffer, leaf_blocks) ==
    \/ ~(leaf_blocks > 0)
    \/ ~(Cardinality(DOMAIN buffer) >= storage_bits_required(leaf_blocks))

\* Mutant of TreeNew: the storage keeps the bits of the buffer.
TreeNewUnfilled(buffer, leaf_blocks) ==
    LET d == ilog2(next_power_of_two(leaf_blocks))
        bits == storage_bits_required(leaf_blocks)
    IN  [ storage |-> [i \in 0 .. bits - 1 |-> buffer[i]],
          leaf_blocks |-> leaf_blocks,
          depth |-> d,
          first_leaf |-> 2 ^ d - 1 ]

\* Mutant of TreeNew: the depth is the logarithm of leaf_blocks itself, not
\* of leaf_blocks rounded up to a power of two.
TreeNewDepthOfLeafBlocks(buffer, leaf_blocks) ==
    LET d == ilog2(leaf_blocks)
        bits == storage_bits_required(leaf_blocks)
    IN  [ storage |-> [i \in 0 .. bits - 1 |-> FALSE],
          leaf_blocks |-> leaf_blocks,
          depth |-> d,
          first_leaf |-> 2 ^ d - 1 ]

\* Tree::new over a byte buffer given as its bits; leaf_blocks > 0 and a
\* buffer of at least storage_bits_required bits (otherwise it panics).
TreeNew(buffer, leaf_blocks) ==
    LET d == ilog2(next_power_of_two(leaf_blocks))
        bits == storage_bits_required(leaf_blocks)
        \* the storage we're provided might be wider than required
        view == [i \in 0 .. bits - 1 |-> buffer[i]]
    IN  [ storage |-> [i \in DOMAIN view |-> FALSE],
          leaf_blocks |-> leaf_blocks,
          depth |-> d,
          first_leaf |-> 2 ^ d - 1 ]

\* Tree::state: decode the bits of a block.
state(t, b) ==
    IF b < t.first_leaf
    THEN LET index == 2 * b
             subdivided == t.storage[index]
             allocated_or_full == t.storage[index + 1]
         IN  CASE ~subdivided /\ ~allocated_or_full -> "Free"
               [] ~subdivided /\ allocated_or_full -> "Allocated"
               [] subdivided /\ ~allocated_or_full -> "Superblock"
               [] subdivided /\ allocated_or_full -> "SuperblockFull"
    ELSE LET index == 2 * t.first_leaf + (b - t.first_leaf)
         IN  IF t.storage[index] THEN "Allocated" ELSE "Free"

\* set_state panics on a block outside the tree and on a leaf block given a
\* superblock state.
set_state_panics(t, b, s) ==
    \/ ~has_block(t, b)
    \/ b >= t.first_leaf /\ s \in {"Superblock", "SuperblockFull"}

\* Mutant of set_state: the bit of a leaf block is taken to be at the
\* block's index, not behind the two bits of every non-leaf block.
set_state_leaf_at_index(t, b, s) ==
    IF b < t.first_leaf
    THEN LET index == 2 * b
             subdivided == s \in {"Superblock", "SuperblockFull"}
             allocated_or_full == s \in {"Allocated", "SuperblockFull"}
         IN  [t EXCEPT !.storage = [@ EXCEPT ![index] = subdivided,
                                              ![index + 1] = allocated_or_full]]
    ELSE LET index == t.first_leaf + (b - t.first_leaf)
         IN  [t EXCEPT !.storage = [@ EXCEPT ![index] = (s = "Allocated")]]

\* Tree::set_state: encode a state into the bits of a block.
set_state(t, b, s) ==
    IF b < t.first_leaf
    THEN LET index == 2 * b
             subdivided == s \in {"Superblock", "SuperblockFull"}
             allocated_or_full == s \in {"Allocated", "SuperblockFull"}
         IN  [t EXCEPT !.storage = [@ EXCEPT ![index] = subdivided,
                                              ![index + 1] = allocated_or_full]]
    ELSE LET index == 2 * t.first_leaf + (b - t.first_leaf)
         IN  [t EXCEPT !.storage = [@ EXCEPT ![index] = (s = "Allocated")]]

\* ------------------------------------------------------- pre-order walk
\* Tree::preorder.  The visitor is a function from block index to an Action:
\* "Yield" (of the block itself, as both callers do), "Skip" or "Descend".
\* The walk returns the blocks in the order the visitor saw them and the
\* Option the source returns.
RECURSIVE preorder_walk_visits_after_yield(_, _, _)
\* Mutant of preorder_walk: the right sub-block is walked even when the walk
\* of the left sub-block yielded.
preorder_walk_visits_after_yield(t, b, visitor) ==
    IF ~has_block(t, b)
    THEN [order |-> << >>, result |-> None]
    ELSE LET action == visitor[b]
         IN  CASE action = "Yield" ->
                    [order |-> << b >>, result |-> Some(b)]
               [] action = "Skip" ->
                    [order |-> << b >>, result |-> None]
               [] action = "Descend" ->
                    LET left == preorder_walk_visits_after_yield(
                                    t, subblocks(b)[1], visitor)
                        right == preorder_walk_visits_after_yield(
                                    t, subblocks(b)[2], visitor)
                    IN  [order |-> << b >> \o left.order \o right.order,
                         result |-> IF IsSome(left.result)
                                    THEN left.result ELSE right.result]

RECURSIVE preorder_walk(_, _, _)
\* The inner fn preorder(tree, block, visitor).
preorder_walk(t, b, visitor) ==
    IF ~has_block(t, b)
    THEN [order |-> << >>, result |-> None]
    ELSE LET action == visitor[b]
         IN  CASE action = "Yield" ->
                    [order |-> << b >>, result |-> Some(b)]
               [] action = "Skip" ->
                    [order |-> << b >>, result |-> None]
               [] action = "Descend" ->
                    LET left == preorder_walk(t, subblocks(b)[1], visitor)
                    IN  IF IsSome(left.result)
                        THEN [order |-> << b >> \o left.order,
                              result |-> left.result]
                        ELSE LET right == preorder_walk(t, subblocks(b)[2],
                                                        visitor)
                             IN  [order |-> << b >> \o left.order
                                               \o right.order,
                                  result |-> right.result]

preorder(t, visitor) == preorder_walk(t, root, visitor)

\* ------------------------------------------------------- ancestor updates
\* An update in progress: the tree, and whether a set_state call panicked.
SetStateChecked(u, b, s) ==
    IF u.panicked THEN u
    ELSE IF set_state_panics(u.tree, b, s)
         THEN [u EXCEPT !.panicked = TRUE]
         ELSE [u EXCEPT !.tree = set_state(@, b, s)]

\* Mutant of MarkRemaining: the second loop forgotten.
MarkRemainingForgotten(u, b) == u

RECURSIVE MarkRemaining(_, _)
\* Second loop of allocate and of free: every remaining superblock of the
\* chain becomes a Superblock.  b is the block the buddies iterator stands on.
MarkRemaining(u, b) ==
    IF is_root(b) THEN u
    ELSE LET sup == Unwrap(superblock(b))
         IN  MarkRemaining(SetStateChecked(u, sup, "Superblock"), sup)

\* Mutant of block_is_full: every superblock is counted as full.
block_is_full_any_superblock(s) ==
    s \in {"Allocated", "SuperblockFull", "Superblock"}

\* Mutant of block_is_full: a full superblock is not counted as full.
block_is_full_allocated_only(s) == s = "Allocated"

\* Whether allocate treats a buddy in state s as full.
block_is_full(s) == s \in {"Allocated", "SuperblockFull"}

\* Mutant of AllocateMarkFull: the iterator stands one block too low, so
\* the block itself is marked where its superblock should be.
AllocateMarkFullOnBlock(u, b) ==
    IF is_root(b) THEN u
    ELSE LET bud == Unwrap(buddy(b))
         IN  IF ~block_is_full(state(u.tree, bud))
             THEN MarkRemaining(SetStateChecked(u, b, "Superblock"), b)
             ELSE MarkRemaining(SetStateChecked(u, b, "SuperblockFull"), b)

RECURSIVE AllocateMarkFull(_, _)
\* First loop of allocate: superblocks become SuperblockFull while the buddy
\* is full; the first superblock whose buddy is not full becomes a Superblock
\* and the loop breaks.
AllocateMarkFull(u, b) ==
    IF is_root(b) THEN u
    ELSE LET bud == Unwrap(buddy(b))
             sup == Unwrap(superblock(b))
         IN  IF ~block_is_full(state(u.tree, bud))
             THEN MarkRemaining(SetStateChecked(u, sup, "Superblock"), sup)
             ELSE AllocateMarkFull(
                      SetStateChecked(u, sup, "SuperblockFull"), sup)

RECURSIVE FreeMarkAlwaysCoalesce(_, _)
\* Mutant of FreeMarkFree: every superblock of the freed block becomes Free,
\* whatever the state of the buddy.
FreeMarkAlwaysCoalesce(u, b) ==
    IF is_root(b) THEN u
    ELSE LET sup == Unwrap(superblock(b))
         IN  FreeMarkAlwaysCoalesce(SetStateChecked(u, sup, "Free"), sup)

\* Mutant of FreeMarkFree: no coalescing, every superblock of the freed block
\* stays a Superblock.
FreeMarkNoCoalesce(u, b) == MarkRemaining(u, b)

RECURSIVE FreeMarkFreeKeepsFull(_, _)
\* Mutant of FreeMarkFree: the first superblock whose buddy is not Free is
\* left marked as full.
FreeMarkFreeKeepsFull(u, b) ==
    IF is_root(b) THEN u
    ELSE LET bud == Unwrap(buddy(b))
             sup == Unwrap(superblock(b))
         IN  IF state(u.tree, bud) # "Free"
             THEN MarkRemaining(SetStateChecked(u, sup, "SuperblockFull"), sup)
             ELSE FreeMarkFreeKeepsFull(SetStateChecked(u, sup, "Free"), sup)

RECURSIVE FreeMarkFree(_, _)
\* First loop of free: superblocks become Free while the buddy is Free; the
\* first superblock whose buddy is not Free becomes a Superblock and the loop
\* breaks.
FreeMarkFree(u, b) ==
    IF is_root(b) THEN u
    ELSE LET bud == Unwrap(buddy(b))
             sup == Unwrap(superblock(b))
         IN  IF state(u.tree, bud) # "Free"
             THEN MarkRemaining(SetStateChecked(u, sup, "Superblock"), sup)
             ELSE FreeMarkFree(SetStateChecked(u, sup, "Free"), sup)

\* ------------------------------------------------------- Tree::allocate
\* Mutant of AllocateHeight: the logarithm of size instead of size - 1.
AllocateHeightOfSize(size) == IF size = 1 THEN 0 ELSE ilog2(size) + 1

\* Block height for a request of size >= 1.
AllocateHeight(size) == IF size = 1 THEN 0 ELSE ilog2(size - 1) + 1

\* Mutant of AllocateVisitor: a Superblock at the requested depth is taken as
\* a Free block is.
AllocateVisitorYieldsSuperblock(t, depth, b) ==
    LET at_requested_depth == EqualsDifference(BlockDepth(b), depth)
        s == state(t, b)
    IN  CASE at_requested_depth /\ s \in {"Free", "Superblock"} -> "Yield"
          [] at_requested_depth /\ s \notin {"Free", "Superblock"} -> "Skip"
          [] ~at_requested_depth /\ s \in {"Allocated", "SuperblockFull"} ->
                "Skip"
          [] OTHER -> "Descend"

\* Mutant of AllocateVisitor: the search descends into Allocated blocks above
\* the requested depth.
AllocateVisitorDescendsAllocated(t, depth, b) ==
    LET at_requested_depth == EqualsDifference(BlockDepth(b), depth)
        s == state(t, b)
    IN  CASE at_requested_depth /\ s = "Free" -> "Yield"
          [] at_requested_depth /\ s # "Free" -> "Skip"
          [] ~at_requested_depth /\ s = "SuperblockFull" -> "Skip"
          [] OTHER -> "Descend"

\* The visitor of allocate's search, for the requested depth.
AllocateVisitor(t, depth, b) ==
    LET at_requested_depth == EqualsDifference(BlockDepth(b), depth)
        s == state(t, b)
    IN  CASE at_requested_depth /\ s = "Free" -> "Yield"
          [] at_requested_depth /\ s # "Free" -> "Skip"
          [] ~at_requested_depth /\ s \in {"Allocated", "SuperblockFull"} ->
                "Skip"
          [] OTHER -> "Descend"

AllocateSearch(t, depth) ==
    preorder(t, [b \in 0 .. block_count(t) - 1 |->
                    AllocateVisitor(t, depth, b)])

\* Mutant of AllocateClaim: a check of the allocation against leaf_blocks,
\* made after the tree was updated.
AllocateClaimLateCheck(t, block, height) ==
    LET marked == SetStateChecked([tree |-> t, panicked |-> FALSE],
                                  block, "Allocated")
        u == AllocateMarkFull(marked, block)
        offset == Shl(BlockOffset(block), height)
        size == Shl(1, height)
    IN  IF offset + size > t.leaf_blocks
        THEN [tree |-> u.tree, result |-> "OutOfMemory",
              offset |-> 0, size |-> 0]
        ELSE [tree |-> u.tree, result |-> "Ok",
              offset |-> offset, size |-> size]

\* The tail of allocate once the search found block: mark it Allocated,
\* update its superblocks, and build the Allocation.
AllocateClaim(t, block, height) ==
    LET marked == SetStateChecked([tree |-> t, panicked |-> FALSE],
                                  block, "Allocated")
        u == AllocateMarkFull(marked, block)
    IN  IF u.panicked
        THEN [tree |-> u.tree, result |-> "Panic", offset |-> 0, size |-> 0]
        ELSE [tree |-> u.tree, result |-> "Ok",
              offset |-> Shl(BlockOffset(block), height),
              size |-> Shl(1, height)]

\* Tree::allocate.  overflow_checks is the build's setting for arithmetic
\* overflow: with it, self.depth - height panics when height > self.depth;
\* without it the subtraction wraps.  The outcome is the tree afterwards and
\* the result: "Ok" with offset and size, "OutOfMemory", or "Panic".
TreeAllocate(t, size, overflow_checks) ==
    LET Fail(r) == [tree |-> t, result |-> r, offset |-> 0, size |-> 0]
    IN
    IF size = 0 THEN Fail("OutOfMemory")
    ELSE
    LET height == AllocateHeight(size) IN
    IF height > t.depth /\ overflow_checks THEN Fail("Panic")
    ELSE
    LET depth == wrapping_sub(t.depth, height)
        found == AllocateSearch(t, depth)
    IN
    IF ~IsSome(found.result)
    THEN Fail("OutOfMemory")
    ELSE AllocateClaim(t, Unwrap(found.result), height)

\* ------------------------------------------------------- Tree::free
\* Mutant of FreeVisitor: any block that is not subdivided is taken for the
\* allocation when its offset matches.
FreeVisitorAnyState(t, offset, b) ==
    LET height == t.depth - BlockDepth(b)
        at_correct_offset == Shl(BlockOffset(b), height) = offset
        s == state(t, b)
    IN  CASE s \in {"Allocated", "Free"} /\ at_correct_offset -> "Yield"
          [] s \in {"Allocated", "Free"} /\ ~at_correct_offset -> "Skip"
          [] OTHER -> "Descend"

\* Mutant of FreeVisitor: the block's offset within its level is compared,
\* not its offset in units.
FreeVisitorUnshifted(t, offset, b) ==
    LET at_correct_offset == BlockOffset(b) = offset
        s == state(t, b)
    IN  CASE s = "Allocated" /\ at_correct_offset -> "Yield"
          [] s = "Allocated" /\ ~at_correct_offset -> "Skip"
          [] s = "Free" -> "Skip"
          [] OTHER -> "Descend"

\* The visitor of free's search.
FreeVisitor(t, offset, b) ==
    LET height == t.depth - BlockDepth(b)
        at_correct_offset == Shl(BlockOffset(b), height) = offset
        s == state(t, b)
    IN  CASE s = "Allocated" /\ at_correct_offset -> "Yield"
          [] s = "Allocated" /\ ~at_correct_offset -> "Skip"
          [] s = "Free" -> "Skip"
          [] OTHER -> "Descend"

\* Mutant of FreeSearch: the first Allocated block in pre-order is taken,
\* whatever its offset.
FreeSearchFirstAllocated(t, offset) ==
    preorder(t, [b \in 0 .. block_count(t) - 1 |->
                    CASE state(t, b) = "Allocated" -> "Yield"
                      [] state(t, b) = "Free" -> "Skip"
                      [] OTHER -> "Descend"])

FreeSearch(t, offset) ==
    preorder(t, [b \in 0 .. block_count(t) - 1 |->
                    FreeVisitor(t, offset, b)])

\* Tree::free.  The outcome is the tree afterwards and the result: "Ok",
\* "DoubleFree", or "Panic".
TreeFree(t, offset) ==
    LET found == FreeSearch(t, offset) IN
    IF ~IsSome(found.result)
    THEN [tree |-> t, result |-> "DoubleFree"]
    ELSE
    LET block == Unwrap(found.result)
        marked == SetStateChecked([tree |-> t, panicked |-> FALSE],
                                  block, "Free")
        u == FreeMarkFree(marked, block)
    IN  [tree |-> u.tree, result |-> IF u.panicked THEN "Panic" ELSE "Ok"]

\* ------------------------------------------------------- state machine
\* tree    the Tree under test (the fields of struct Tree)
\* live    the caller's record of live allocations: those returned by a
\*         successful allocate and not yet freed
\* watch   an observer's note of one offset successfully freed since the
\*         last successful allocate (any one of them), or None
\* lastOp  the last call: its argument, its result, and the state before it;
\*         for an allocate that follows a successful free at once, if the
\*         observer notes it: reuses holds the allocation that the free
\*         released;
\*         for a free of the offset that the call just before it, a
\*         successful allocate, returned: undoes holds the tree as it was
\*         before that allocate
\* allocator  the fields of the page allocator that wraps the tree (heap,
\*         tree_len, heap_len_pages), or None when the tree is used directly
\* scheduler  the kernel's Scheduler (its current_index; the two tasks are
\*         fixed), or None when the run is not about it
\* spinlock   the AtomicBool of a RawSpinlock, or None when the run is not
\*         about it
\* threads    for each thread that uses the spinlock: where it is in lock,
\*         try_lock or unlock, and whether it holds the lock; or None
VARIABLES tree, live, watch, lastOp, allocator, scheduler, spinlock, threads

\* The objects of the kernel proper.
kernel == << scheduler, spinlock, threads >>

vars == << tree, live, watch, lastOp, allocator, kernel >>

\* A run about the allocators has no scheduler and no spinlock.
KernelIdle == scheduler = None /\ spinlock = None /\ threads = None

\* A caller's byte buffer for a tree of leaf_blocks leaves, every bit set to
\* fill: the smallest whole number of bytes holding the required bits.
Buffer(leaf_blocks, fill) ==
    LET bits == storage_bits_required(leaf_blocks)
        bytes == (bits + 7) \div 8
    IN  [i \in 0 .. 8 * bytes - 1 |-> fill]

Init ==
    \E n \in 1 .. MaxLeafBlocks, fill \in BOOLEAN :
        /\ tree = TreeNew(Buffer(n, fill), n)
        /\ live = {}
        /\ watch = None
        /\ allocator = None
        /\ KernelIdle
        /\ lastOp = [op |-> "new", arg |-> n, fill |-> fill, result |-> "Ok",
                     offset |-> 0, size |-> 0,
                     pre |-> TreeNew(Buffer(n, fill), n),
                     preLive |-> {}, preWatch |-> None, undoes |-> None]

\* The offsets of a set of allocations.
LiveOffsets(l) == {a.offset : a \in l}

\* A panic ends the program.
Running == lastOp.result # "Panic"

\* The settings of the build's overflow checks that a call of allocate(size)
\* can tell apart: both when self.depth - height overflows, else one.
OverflowChecks(t, size) ==
    IF size > 0 /\ AllocateHeight(size) > t.depth THEN BOOLEAN ELSE {TRUE}

\* A call of Tree::allocate(size); note tells whether the observer notes,
\* when the call comes right after a successful free, the allocation that
\* the free released.
AllocateCall(size, note) ==
    /\ Running
    /\ \E overflow_checks \in OverflowChecks(tree, size) :
        \E r \in {TreeAllocate(tree, size, overflow_checks)} :
        /\ tree' = r.tree
        /\ live' = IF r.result = "Ok"
                   THEN live \cup {[offset |-> r.offset, size |-> r.size]}
                   ELSE live
        /\ watch' = IF r.result = "Ok" THEN None ELSE watch
        /\ lastOp' = [op |-> "allocate", arg |-> size, result |-> r.result,
                      offset |-> r.offset, size |-> r.size,
                      pre |-> tree, preLive |-> live, preWatch |-> watch,
                      undoes |-> None,
                      reuses |-> IF /\ note
                                    /\ lastOp.op = "free"
                                    /\ lastOp.result = "Ok"
                                 THEN Some(CHOOSE a \in lastOp.preLive :
                                               a.offset = lastOp.arg)
                                 ELSE None]
        /\ UNCHANGED << allocator, kernel >>

Allocate(size) == AllocateCall(size, FALSE)

\* A call of Tree::free(offset); observe tells whether the observer notes
\* the offset when the call succeeds.
FreeCall(offset, observe) ==
    /\ Running
    /\ \E r \in {TreeFree(tree, offset)} :
        /\ tree' = r.tree
        /\ live' = IF r.result = "Ok"
                   THEN {a \in live : a.offset # offset}
                   ELSE live
        /\ watch' = IF r.result = "Ok" /\ observe THEN Some(offset) ELSE watch
        /\ lastOp' = [op |-> "free", arg |-> offset, result |-> r.result,
                      offset |-> 0, size |-> 0,
                      pre |-> tree, preLive |-> live, preWatch |-> watch,
                      undoes |-> IF /\ lastOp.op = "allocate"
                                    /\ lastOp.result = "Ok"
                                    /\ lastOp.offset = offset
                                 THEN Some(lastOp.pre)
                                 ELSE None]
        /\ UNCHANGED << allocator, kernel >>

Free(offset) == FreeCall(offset, FALSE)

Next ==
    \/ \E size \in 0 .. MaxSize : Allocate(size)
    \/ \E offset \in 0 .. MaxOffset : Free(offset)

Spec == Init /\ [][Next]_vars

\* The same program with the observer at work: while it has noted no offset
\* it may note the one a successful free frees.
FreeObserved(offset) ==
    \E observe \in (IF watch = None THEN BOOLEAN ELSE {FALSE}) :
        FreeCall(offset, observe)

NextObserved ==
    \/ \E size \in 0 .. MaxSize : Allocate(size)
    \/ \E offset \in 0 .. MaxOffset : FreeObserved(offset)

SpecObserved == Init /\ [][NextObserved]_vars

\* The same program with an observer that notes, at each allocate, the
\* allocation released by the free just before it.
AllocateNoted(size) == AllocateCall(size, TRUE)

NextNoted ==
    \/ \E size \in 0 .. MaxSize : AllocateNoted(size)
    \/ \E offset \in 0 .. MaxOffset : Free(offset)

SpecNoted == Init /\ [][NextNoted]_vars

\* ======================================================= sizing
\* A caller of the sizing helper, as tests::storage_depth_required: it asks
\* for the bits of trees of any number of leaf blocks, none included, and
\* builds no tree.  lastOp holds the last call and, in prev, the argument
\* and the result of the call before it.
InitSizing ==
    /\ tree = None
    /\ live = {}
    /\ watch = None
    /\ allocator = None
    /\ KernelIdle
    /\ lastOp = [op |-> "start", result |-> "Ok"]

\* A call of Tree::storage_bits_required(leaf_blocks).
StorageBitsRequiredCall(leaf_blocks) ==
    /\ Running
    /\ lastOp' = IF storage_bits_required_panics(leaf_blocks)
                 THEN [op |-> "storage_bits_required", arg |-> leaf_blocks,
                       result |-> "Panic"]
                 ELSE [op |-> "storage_bits_required", arg |-> leaf_blocks,
                       result |-> "Ok",
                       bits |-> storage_bits_required(leaf_blocks),
                       prev |-> IF lastOp.op = "storage_bits_required"
                                THEN Some([arg |-> lastOp.arg,
                                           bits |-> lastOp.bits])
                                ELSE None]
    /\ UNCHANGED << tree, live, watch, allocator, kernel >>

NextSizing ==
    \E leaf_blocks \in 0 .. MaxSizedLeafBlocks :
        StorageBitsRequiredCall(leaf_blocks)

SpecSizing == InitSizing /\ [][NextSizing]_vars

\* ======================================================= construction
\* A caller that builds the tree over a buffer of any width, too narrow
\* ones included, for any number of leaf blocks, none included, and then
\* allocates and frees as in Spec.
ByteBuffer(bytes, fill) == [i \in 0 .. 8 * bytes - 1 |-> fill]

\* A call of Tree::new(buffer, leaf_blocks) over a buffer of bytes bytes.
TreeNewCall(leaf_blocks, bytes, fill) ==
    /\ lastOp.op = "start"
    /\ \E buffer \in {ByteBuffer(bytes, fill)} :
        IF TreeNewPanics(buffer, leaf_blocks)
        THEN /\ tree' = tree
             /\ lastOp' = [op |-> "new", arg |-> leaf_blocks,
                           bytes |-> bytes, fill |-> fill,
                           result |-> "Panic"]
        ELSE /\ tree' = TreeNew(buffer, leaf_blocks)
             /\ lastOp' = [op |-> "new", arg |-> leaf_blocks,
                           bytes |-> bytes, fill |-> fill,
                           result |-> "Ok", offset |-> 0, size |-> 0,
                           pre |-> TreeNew(buffer, leaf_blocks),
                           preLive |-> {}, preWatch |-> None,
                           undoes |-> None]
    /\ UNCHANGED << live, watch, allocator, kernel >>

\* Tree::new has returned a tree and no call has panicked since.
HasTree == lastOp.op # "start" /\ Running

AllocateOnTree(size) == HasTree /\ Allocate(size)
FreeOnTree(offset) == HasTree /\ Free(offset)

NextConstruct ==
    \/ \E leaf_blocks \in 0 .. MaxLeafBlocks, bytes \in 0 .. MaxBufferBytes,
          fill \in BOOLEAN : TreeNewCall(leaf_blocks, bytes, fill)
    \/ \E size \in 0 .. MaxSize : AllocateOnTree(size)
    \/ \E offset \in 0 .. MaxOffset : FreeOnTree(offset)

SpecConstruct == InitSizing /\ [][NextConstruct]_vars

\* ------------------------------------------------------- BlockIndex calls
\* A block index to call the functions of BlockIndex on.
InitBlockIndex ==
    \E i \in 0 .. MaxBlockIndex :
        /\ tree = None
        /\ live = {}
        /\ watch = None
        /\ allocator = None
        /\ KernelIdle
        /\ lastOp = [op |-> "start", arg |-> i, result |-> "Ok"]

\* The calls superblock(), buddy(), subblocks(), depth() and offset() on
\* BlockIndex(arg).
BlockIndexCall ==
    /\ lastOp.op \in {"start", "BlockIndex"}
    /\ lastOp' = [op |-> "BlockIndex", arg |-> lastOp.arg, result |-> "Ok",
                  is_root |-> is_root(lastOp.arg),
                  superblock |-> superblock(lastOp.arg),
                  buddy |-> buddy(lastOp.arg),
                  subblocks |-> subblocks(lastOp.arg),
                  depth |-> BlockDepth(lastOp.arg),
                  offset |-> BlockOffset(lastOp.arg)]
    /\ UNCHANGED << tree, live, watch, allocator, kernel >>

NextBlockIndex == BlockIndexCall

SpecBlockIndex == InitBlockIndex /\ [][NextBlockIndex]_vars

\* ------------------------------------------------------- state accessors
\* A new tree to call the state accessors on.
InitAccessors ==
    \E n \in 1 .. MaxLeafBlocks :
        /\ tree = TreeNew(Buffer(n, FALSE), n)
        /\ live = {}
        /\ watch = None
        /\ allocator = None
        /\ KernelIdle
        /\ lastOp = [op |-> "new", arg |-> n, result |-> "Ok", calls |-> 0]

\* A call of Tree::set_state(block, s), then of Tree::state on every block
\* (the states are read off the tree).  The call panics on a block outside
\* the tree and on a leaf block given a superblock state.
SetStateCall(b, s) ==
    /\ Running
    /\ lastOp.calls < MaxSetStateCalls
    /\ IF set_state_panics(tree, b, s)
       THEN /\ lastOp' = [op |-> "set_state", arg |-> << b, s >>,
                          result |-> "Panic", calls |-> lastOp.calls + 1,
                          pre |-> tree]
            /\ UNCHANGED tree
       ELSE /\ tree' = set_state(tree, b, s)
            /\ lastOp' = [op |-> "set_state", arg |-> << b, s >>,
                          result |-> "Ok", calls |-> lastOp.calls + 1,
                          pre |-> tree]
    /\ UNCHANGED << live, watch, allocator, kernel >>

NextAccessors ==
    \E b \in 0 .. block_count(tree), s \in BlockStates : SetStateCall(b, s)

SpecAccessors == InitAccessors /\ [][NextAccessors]_vars

\* ------------------------------------------------------- Tree::preorder
\* The visitors handed to Tree::preorder: a visitor descends at every block
\* but at most MaxMarked marked ones, where it skips or yields the block.  A
\* mark at -1 marks no block; of two marks at one block the first counts.
Marks(t) ==
    [1 .. MaxMarked -> ((0 .. block_count(t) - 1) \cup {-1}) \X {"Skip", "Yield"}]

VisitorOf(t, marks) ==
    [b \in 0 .. block_count(t) - 1 |->
        IF \E i \in 1 .. MaxMarked : marks[i][1] = b
        THEN marks[CHOOSE i \in 1 .. MaxMarked :
                      /\ marks[i][1] = b
                      /\ \A j \in 1 .. i - 1 : marks[j][1] # b][2]
        ELSE "Descend"]

\* A tree and a visitor to walk it with.
InitPreorder ==
    \E n \in 1 .. MaxLeafBlocks :
        \E t \in {TreeNew(Buffer(n, FALSE), n)} :
        \E marks \in Marks(t) :
            /\ tree = t
            /\ live = {}
            /\ watch = None
            /\ allocator = None
            /\ KernelIdle
            /\ lastOp = [op |-> "new", arg |-> n, result |-> "Ok",
                         visitor |-> VisitorOf(t, marks)]

\* A call of Tree::preorder with the visitor; order is the sequence of
\* blocks the visitor was called with.
PreorderCall ==
    /\ lastOp.op \in {"new", "preorder"}
    /\ \E walk \in {preorder(tree, lastOp.visitor)} :
        lastOp' = [op |-> "preorder", arg |-> lastOp.arg, result |-> walk.result,
                   visitor |-> lastOp.visitor, order |-> walk.order]
    /\ UNCHANGED << tree, live, watch, allocator, kernel >>

NextPreorder == PreorderCall

SpecPreorder == InitPreorder /\ [][NextPreorder]_vars

\* ======================================================= Allocator
\* The page allocator: a tree over the pages of [start, end), stored in the
\* first bytes of that range.  Pointers are byte addresses; a page pointer
\* moves by PAGE_SIZE bytes per unit.
PAGE_SIZE == 4096

\* Mutant of align_offset: a whole align for a pointer that is aligned.
align_offset_never_zero(p, align) == align - (p % align)

\* Mutant of align_offset: the bytes back to the multiple of align before.
align_offset_down(p, align) == 0 - (p % align)

\* pointer::align_offset of a byte pointer: the bytes up to the next
\* multiple of align.
align_offset(p, align) == (align - (p % align)) % align

\* Tree::storage_required: the bytes that store a tree of at least
\* leaf_blocks leaves, two bits for every block; it panics for no leaves.
storage_required_panics(leaf_blocks) == ~(leaf_blocks > 0)

storage_required(leaf_blocks) ==
    LET rounded == next_power_of_two(leaf_blocks)
        blocks == 2 * rounded - 1
    IN  (blocks * NONLEAF_BITS + 7) \div 8

\* Tree::depth_required: the depth D of the smallest tree with 2^D leaves
\* at least leaf_blocks.
depth_required(leaf_blocks) == ilog2(next_power_of_two(leaf_blocks))

\* Tree::new as the allocator calls it, with the depth of the tree: a tree
\* of 2^depth leaves, every block free.
TreeNewOfDepth(buffer, depth) == TreeNew(buffer, 2 ^ depth)

\* Allocator::new, the pages the tree is sized for: from start rounded up
\* to a page, to end.
tree_block_count(start, end) ==
    LET start_aligned == start + align_offset(start, PAGE_SIZE)
    IN  (end - start_aligned) \div PAGE_SIZE

\* Allocator::new over memory whose bits are all fill.  The outcome is
\* "Panic" (end not page-aligned, or no page to size the tree for) or "Ok"
\* with the tree and the fields.  end is at or after heap for every range
\* with a page (C19), so the cast of end - heap to usize never wraps.
AllocatorNew(start, end, fill) ==
    LET count == tree_block_count(start, end)
        tree_len == storage_required(count)
        tree_depth == depth_required(count)
        storage == [i \in 0 .. 8 * tree_len - 1 |-> fill]
        tree_end == start + tree_len
        padding == align_offset(tree_end, PAGE_SIZE)
        heap == tree_end + padding
        heap_len_pages == (end - heap) \div PAGE_SIZE
    IN  IF align_offset(end, PAGE_SIZE) # 0 \/ storage_required_panics(count)
        THEN [result |-> "Panic"]
        ELSE [result |-> "Ok",
              tree |-> TreeNewOfDepth(storage, tree_depth),
              heap |-> heap,
              tree_len |-> tree_len,
              heap_len_pages |-> heap_len_pages]

\* Mutant of is_within_heap: only the start of the allocation is compared.
is_within_heap_start_only(a, allocation) ==
    allocation.offset < a.heap_len_pages

\* Mutant of is_within_heap: an allocation that ends exactly at the end of
\* the heap is taken to overflow it.
is_within_heap_strict(a, allocation) ==
    allocation.offset + allocation.size < a.heap_len_pages

\* Allocator::is_within_heap: false iff the allocation overflows the actual
\* end of the heap.
is_within_heap(a, allocation) ==
    allocation.offset + allocation.size <= a.heap_len_pages

\* Mutant of AllocatorRollback: the rejected allocation stays in the tree.
AllocatorRollbackForgotten(t, allocation) == [tree |-> t, result |-> "Ok"]

\* Mutant of AllocatorRollback: the size of the rejected allocation is
\* passed to free where its offset is meant.
AllocatorRollbackBySize(t, allocation) == TreeFree(t, allocation.size)

\* Allocator::allocate, the rejected allocation freed again.
AllocatorRollback(t, allocation) == TreeFree(t, allocation.offset)

\* Mutant of AllocationPtr: offset pages are counted from the page at or
\* before the tree's storage, not from heap.
AllocationPtrFromStorage(a, allocation) ==
    (a.heap - PAGE_SIZE) + allocation.offset * PAGE_SIZE

\* Mutant of AllocationPtr: heap moved by offset bytes, not pages.
AllocationPtrInBytes(a, allocation) == a.heap + allocation.offset

\* Allocator::allocate, the ptr of the Allocation it returns: the page
\* pointer heap moved by offset pages.
AllocationPtr(a, allocation) == a.heap + allocation.offset * PAGE_SIZE

\* Mutant of AllocationSize: the requested pages, not their bytes.
AllocationSizeInPages(page_count, allocation) == page_count

\* Mutant of AllocationSize: the size the tree rounded the request up to.
AllocationSizeRounded(page_count, allocation) == allocation.size * PAGE_SIZE

\* Allocator::allocate, the size of the Allocation it returns, in bytes.
AllocationSize(page_count, allocation) == page_count * PAGE_SIZE

\* Allocator::allocate on the allocator a with tree t.  The outcome is the
\* tree afterwards, the result ("Ok" with ptr and size in bytes,
\* "OutOfMemory" or "Panic"), the tree's allocation, and whether it was
\* rejected and freed again.
AllocatorAllocate(a, t, page_count, overflow_checks) ==
    LET allocation == TreeAllocate(t, page_count, overflow_checks)
        Outcome(tr, r, p, sz, rej) ==
            [tree |-> tr, result |-> r, ptr |-> p, size |-> sz,
             allocation |-> [offset |-> allocation.offset,
                             size |-> allocation.size],
             rejected |-> rej]
    IN  IF allocation.result # "Ok"
        THEN Outcome(t, allocation.result, 0, 0, FALSE)
        ELSE IF ~is_within_heap(a, allocation)
        THEN LET freed == AllocatorRollback(allocation.tree, allocation)
             IN  IF freed.result = "Ok"
                 THEN Outcome(freed.tree, "OutOfMemory", 0, 0, TRUE)
                 ELSE Outcome(freed.tree, "Panic", 0, 0, TRUE)
        ELSE Outcome(allocation.tree, "Ok",
                     AllocationPtr(a, allocation),
                     AllocationSize(page_count, allocation), FALSE)

\* Mutant of FreePageOffset: the distance from heap in bytes.
FreePageOffsetInBytes(a, ptr) == ptr - a.heap

\* Allocator::free, ptr.offset_from(heap) of page pointers: the distance
\* from heap in pages.
FreePageOffset(a, ptr) == (ptr - a.heap) \div PAGE_SIZE

\* Allocator::free, the range check of the page offset.
FreeOutOfRange(a, offset) == offset < 0 \/ offset > a.heap_len_pages

\* Allocator::free of the allocation at ptr, a page pointer a whole number
\* of pages from heap.
AllocatorFree(a, t, ptr) ==
    LET offset == FreePageOffset(a, ptr)
    IN  IF FreeOutOfRange(a, offset)
        THEN [tree |-> t, result |-> "DoubleFree"]
        ELSE TreeFree(t, offset)

\* The ranges a caller passes: start at these byte offsets from a base
\* aligned to 1 MiB, end at or after start, up to MaxEndPage pages from the
\* base and, to meet the assertion, 1 byte past a page boundary.
Base == 1048576
StartOffsets == {0, 1, PAGE_SIZE - 1, PAGE_SIZE + 256}
Starts == {Base + o : o \in StartOffsets}
Ends == {Base + k * PAGE_SIZE + u : k \in 1 .. MaxEndPage, u \in {0, 1}}

\* After Allocator::new(start, end).  live holds the tree's allocations that
\* the allocator returned and the caller has not freed; lastOp holds the
\* last call, the tree's allocation behind an Allocator::allocate, whether
\* the allocator rejected it, whether the call before had one rejected, and
\* the range [start, end) the allocator was built over.
AllocatorNewCall(start, end, fill) ==
    \E r \in {AllocatorNew(start, end, fill)} :
        /\ tree = IF r.result = "Ok" THEN r.tree ELSE None
        /\ allocator = IF r.result = "Ok"
                       THEN [heap |-> r.heap, tree_len |-> r.tree_len,
                             heap_len_pages |-> r.heap_len_pages]
                       ELSE None
        /\ KernelIdle
        /\ live = {}
        /\ watch = None
        /\ lastOp = [op |-> "Allocator::new", arg |-> << start, end >>,
                     result |-> r.result, range |-> << start, end >>]

InitAllocator ==
    \E start \in Starts, end \in Ends, fill \in BOOLEAN :
        /\ start <= end
        /\ AllocatorNewCall(start, end, fill)

\* A call of Allocator::allocate(page_count).
AllocatorAllocateCall(page_count) ==
    /\ Running
    /\ \E overflow_checks \in OverflowChecks(tree, page_count) :
        \E r \in {AllocatorAllocate(allocator, tree, page_count,
                                    overflow_checks)} :
        /\ tree' = r.tree
        /\ live' = IF r.result = "Ok" THEN live \cup {r.allocation} ELSE live
        /\ lastOp' = [op |-> "Allocator::allocate", arg |-> page_count,
                      result |-> r.result, ptr |-> r.ptr, size |-> r.size,
                      allocation |-> r.allocation, rejected |-> r.rejected,
                      follows_rejected |->
                          (lastOp.op = "Allocator::allocate"
                           /\ lastOp.rejected),
                      pre |-> tree, preLive |-> live,
                      range |-> lastOp.range]
        /\ UNCHANGED << watch, allocator, kernel >>

\* A call of Allocator::free of an allocation whose ptr is page_offset
\* pages from heap.
AllocatorFreeCall(page_offset) ==
    /\ Running
    /\ \E r \in {AllocatorFree(allocator, tree,
                               allocator.heap + page_offset * PAGE_SIZE)} :
        /\ tree' = r.tree
        /\ live' = IF r.result = "Ok"
                   THEN {a \in live : a.offset # page_offset}
                   ELSE live
        /\ lastOp' = [op |-> "Allocator::free", arg |-> page_offset,
                      result |-> r.result,
                      pre |-> tree, preLive |-> live,
                      range |-> lastOp.range]
        /\ UNCHANGED << watch, allocator, kernel >>

NextAllocator ==
    \/ \E page_count \in 0 .. MaxSize : AllocatorAllocateCall(page_count)
    \/ \E page_offset \in -1 .. MaxOffset : AllocatorFreeCall(page_offset)

SpecAllocator == InitAllocator /\ [][NextAllocator]_vars

\* The allocator on the ranges of the source's tests, allocator (254 pages
\* from start rounded up) and heap_overflow (3 pages).  On each range the
\* caller makes the calls of the test of that range, in any order: it
\* requests the sizes the test requests and frees the allocations it holds
\* and two pointers it does not, one page before heap and the end of the
\* heap.  It holds at most MaxLive allocations at a time.
TestStart == Base + PAGE_SIZE + 256
TestEnds == {Base + 5 * PAGE_SIZE, Base + 256 * PAGE_SIZE}

\* The sizes tests::heap_overflow requests: allocate(2), allocate(2),
\* allocate(1).
HeapOverflowSizes == {1, 2}
\* The sizes tests::allocator requests: allocate(13) three times,
\* allocate(17), allocate(4).
AllocatorSizes == {4, 13, 17}
\* The sizes requested on the range the allocator was built over.
TestSizes ==
    IF lastOp.range = << TestStart, Base + 5 * PAGE_SIZE >>
    THEN HeapOverflowSizes
    ELSE AllocatorSizes

InitAllocatorTest ==
    \E end \in TestEnds, fill \in BOOLEAN :
        AllocatorNewCall(TestStart, end, fill)

\* A call of Allocator::allocate by a caller with room for its result.
TestAllocateCall(page_count) ==
    /\ Cardinality(live) < MaxLive
    /\ AllocatorAllocateCall(page_count)

\* The page offsets of the pointers the caller frees.
TestFrees == LiveOffsets(live) \cup {-1, allocator.heap_len_pages}

\* A call of Allocator::free by the tests' caller, which reads only the
\* Result (allocator.free(a2)?): lastOp holds the call's result and neither
\* its pointer nor the tree before it.
TestFreeCall(page_offset) ==
    /\ Running
    /\ \E r \in {AllocatorFree(allocator, tree,
                               allocator.heap + page_offset * PAGE_SIZE)} :
        /\ tree' = r.tree
        /\ live' = IF r.result = "Ok"
                   THEN {a \in live : a.offset # page_offset}
                   ELSE live
        /\ lastOp' = [op |-> "Allocator::free", result |-> r.result,
                      range |-> lastOp.range]
        /\ UNCHANGED << watch, allocator, kernel >>

NextAllocatorTest ==
    \/ \E page_count \in TestSizes : TestAllocateCall(page_count)
    \/ \E page_offset \in TestFrees : TestFreeCall(page_offset)

SpecAllocatorTest == InitAllocatorTest /\ [][NextAllocatorTest]_vars

\* ======================================================= properties
\* Vocabulary of the properties, independent of the tree's code.
Blocks(t) == 0 .. block_count(t) - 1
Capacity(t) == 2 ^ t.depth
Fresh(t) == TreeNew(Buffer(t.leaf_blocks, TRUE), t.leaf_blocks)
Disjoint(a, b) ==
    a.offset + a.size <= b.offset \/ b.offset + b.size <= a.offset
Returned == [offset |-> lastOp.offset, size |-> lastOp.size]
AllocateOk == lastOp.op = "allocate" /\ lastOp.result = "Ok"
AllocateOutOfMemory == lastOp.op = "allocate" /\ lastOp.result = "OutOfMemory"
FreeOk == lastOp.op = "free" /\ lastOp.result = "Ok"
FreeDoubleFree == lastOp.op = "free" /\ lastOp.result = "DoubleFree"

\* The smallest power of two >= k, by its definition.
PowersOfTwo == {2 ^ i : i \in 0 .. MaxSize}
SmallestPowerOfTwoAtLeast(k) ==
    CHOOSE p \in PowersOfTwo :
        p >= k /\ \A q \in PowersOfTwo : q >= k => p <= q

RECURSIVE Ancestors(_)
Ancestors(b) ==
    IF b = 0 THEN {}
    ELSE {(b - 1) \div 2} \cup Ancestors((b - 1) \div 2)

\* The state invariant I6 gives an internal block from its sub-blocks' states.
FromSubblocks(l, r) ==
    CASE l = "Free" /\ r = "Free" -> "Free"
      [] /\ l \in {"Allocated", "SuperblockFull"}
         /\ r \in {"Allocated", "SuperblockFull"} -> "SuperblockFull"
      [] OTHER -> "Superblock"

\* ======================================================= Scheduler
\* The kernel's scheduler: two tasks and current_index.  lastOp holds the
\* last call, the index of the task it selected (result), the number of
\* schedule calls so far (calls) and the tasks that the last four of them
\* selected, oldest first (recent).

\* Mutant of next_index: the index wraps at the number of tasks.
next_index_mod_tasks(current_index) == (current_index + 1) % 2

\* Scheduler::schedule, the new current_index: += 1, then %= 4.
next_index(current_index) == (current_index + 1) % 4

\* The task that schedule and start select: tasks[current_index >> 1].
task_index(current_index) == current_index \div 2

\* Scheduler::new.
SchedulerNew == [current_index |-> 0]

\* Scheduler::schedule: the scheduler afterwards and the task selected.
SchedulerSchedule(sch) ==
    LET index == next_index(sch.current_index)
    IN  [scheduler |-> [sch EXCEPT !.current_index = index],
         task |-> task_index(index)]

\* The last four elements of a sequence.
LastFour(seq) ==
    IF Len(seq) <= 4 THEN seq ELSE SubSeq(seq, Len(seq) - 3, Len(seq))

\* kernel_main has initialised SCHEDULER with Scheduler::new().
InitScheduler ==
    /\ tree = None
    /\ live = {}
    /\ watch = None
    /\ allocator = None
    /\ scheduler = SchedulerNew
    /\ spinlock = None
    /\ threads = None
    /\ lastOp = [op |-> "Scheduler::new", result |-> None, calls |-> 0,
                 recent |-> << >>]

\* Scheduler::start: control passes to tasks[current_index >> 1] for good.
SchedulerStart ==
    /\ lastOp.op = "Scheduler::new"
    /\ lastOp' = [op |-> "start", result |-> task_index(scheduler.current_index),
                  calls |-> 0, recent |-> << >>]
    /\ UNCHANGED << tree, live, watch, allocator, kernel >>

\* vector_el0_a64_irq on the timer interrupt, taken while a task runs: the
\* context returned is that of the task schedule selects.
TimerInterrupt ==
    /\ lastOp.op # "Scheduler::new"
    /\ lastOp.calls < MaxScheduleCalls
    /\ \E r \in {SchedulerSchedule(scheduler)} :
        /\ scheduler' = r.scheduler
        /\ lastOp' = [op |-> "schedule", result |-> r.task,
                      calls |-> lastOp.calls + 1,
                      recent |-> LastFour(Append(lastOp.recent, r.task))]
    /\ UNCHANGED << tree, live, watch, allocator, spinlock, threads >>

\* vector_el0_a64_irq on any other interrupt: the context returned is the
\* one passed in, the task that was running goes on.
OtherInterrupt ==
    /\ lastOp.op \in {"start", "schedule"}
    /\ lastOp' = [lastOp EXCEPT !.op = "irq"]
    /\ UNCHANGED << tree, live, watch, allocator, kernel >>

NextScheduler ==
    \/ SchedulerStart
    \/ TimerInterrupt
    \/ OtherInterrupt

SpecScheduler == InitScheduler /\ [][NextScheduler]_vars

\* ======================================================= RawSpinlock
\* One RawSpinlock used by MaxThreads threads.  spinlock is the AtomicBool.
\* A thread is "idle" (outside the lock's functions, not holding the lock),
\* "lock" (inside lock(), between two attempts; spins counts its failed
\* attempts) or "holding" (a lock or try_lock of its own succeeded and it has
\* not unlocked).  Each atomic operation is one step.  lastOp holds the last
\* step: the function, the thread, the value try_lock returned, and the
\* AtomicBool before the step (pre).
Threads == 1 .. MaxThreads

\* Mutant of compare_exchange: the new value is stored and success reported
\* whatever the current value is.
compare_exchange_always_ok(value, current, new) ==
    [value |-> new, ok |-> TRUE]

\* AtomicBool::compare_exchange(current, new): atomically, store new if the
\* value is current; ok tells whether it was.
compare_exchange(value, current, new) ==
    IF value = current
    THEN [value |-> new, ok |-> TRUE]
    ELSE [value |-> value, ok |-> FALSE]

\* RawSpinlock::try_lock on the AtomicBool: the value afterwards and the
\* bool returned.
try_lock(value) == compare_exchange(value, FALSE, TRUE)

\* RawSpinlock::unlock: store(false).
unlock(value) == FALSE

\* RawSpinlock::INIT, and every thread outside the lock's functions.
InitSpinlock ==
    /\ tree = None
    /\ live = {}
    /\ watch = None
    /\ allocator = None
    /\ scheduler = None
    /\ spinlock = FALSE
    /\ threads = [t \in Threads |-> [pc |-> "idle", spins |-> 0]]
    /\ lastOp = [op |-> "INIT", thread |-> 0, result |-> FALSE, pre |-> FALSE]

\* Thread t calls lock() and reaches the head of its loop.
LockCall(t) ==
    /\ threads[t].pc = "idle"
    /\ threads' = [threads EXCEPT ![t] = [pc |-> "lock", spins |-> 0]]
    /\ lastOp' = [op |-> "lock", thread |-> t, result |-> FALSE,
                  pre |-> spinlock]
    /\ UNCHANGED << tree, live, watch, allocator, scheduler, spinlock >>

\* One turn of the loop of lock() in thread t: while !self.try_lock() {}.
\* Failed attempts past MaxSpins change nothing and are left out.
LockAttempt(t) ==
    /\ threads[t].pc = "lock"
    /\ \E r \in {try_lock(spinlock)} :
        /\ ~r.ok => threads[t].spins < MaxSpins
        /\ spinlock' = r.value
        /\ threads' = [threads EXCEPT ![t] =
                          IF r.ok
                          THEN [pc |-> "holding", spins |-> @.spins]
                          ELSE [pc |-> "lock", spins |-> @.spins + 1]]
        /\ lastOp' = [op |-> "lock: try_lock", thread |-> t, result |-> r.ok,
                      pre |-> spinlock]
    /\ UNCHANGED << tree, live, watch, allocator, scheduler >>

\* Thread t calls try_lock() once.
TryLockCall(t) ==
    /\ threads[t].pc = "idle"
    /\ \E r \in {try_lock(spinlock)} :
        /\ spinlock' = r.value
        /\ threads' = [threads EXCEPT ![t] =
                          IF r.ok
                          THEN [pc |-> "holding", spins |-> 0]
                          ELSE [pc |-> "idle", spins |-> 0]]
        /\ lastOp' = [op |-> "try_lock", thread |-> t, result |-> r.ok,
                      pre |-> spinlock]
    /\ UNCHANGED << tree, live, watch, allocator, scheduler >>

\* Thread t, which holds the lock, calls unlock() (unsafe: the caller must
\* hold the lock).
UnlockCall(t) ==
    /\ threads[t].pc = "holding"
    /\ spinlock' = unlock(spinlock)
    /\ threads' = [threads EXCEPT ![t] = [pc |-> "idle", spins |-> 0]]
    /\ lastOp' = [op |-> "unlock", thread |-> t, result |-> FALSE,
                  pre |-> spinlock]
    /\ UNCHANGED << tree, live, watch, allocator, scheduler >>

NextSpinlock ==
    \/ \E t \in Threads : LockCall(t)
    \/ \E t \in Threads : LockAttempt(t)
    \/ \E t \in Threads : TryLockCall(t)
    \/ \E t \in Threads : UnlockCall(t)

SpecSpinlock == InitSpinlock /\ [][NextSpinlock]_vars

\* ------------------------------------------------------- C1
\* C1: no two live allocations overlap: the live allocations are pairwise
\* disjoint, and an allocation just returned is disjoint from every
\* allocation that was live when it was made.
C1_NoLiveOverlap ==
    /\ \A a, b \in live : a # b => Disjoint(a, b)
    /\ AllocateOk => \A a \in lastOp.preLive : Disjoint(a, Returned)

\* An allocation made into the gap that a free left between two live
\* allocations.
C1_Witness ==
    /\ AllocateOk
    /\ \E a, b \in lastOp.preLive :
           /\ a.offset + a.size = lastOp.offset
           /\ lastOp.offset + lastOp.size = b.offset
    /\ Cardinality(live) >= 3

\* ------------------------------------------------------- C2
\* C2: after every allocate and free, every internal block that is not
\* itself Allocated has the state its two sub-blocks determine.
C2_StateFromSubblocks ==
    \A b \in 0 .. tree.first_leaf - 1 :
        state(tree, b) # "Allocated" =>
            state(tree, b) = FromSubblocks(state(tree, 2 * b + 1),
                                           state(tree, 2 * b + 2))

\* After a free, a tree with a full superblock next to a free block under a
\* Superblock root.
C2_Witness ==
    /\ FreeOk
    /\ tree.depth >= 2
    /\ state(tree, 0) = "Superblock"
    /\ state(tree, 1) = "SuperblockFull"
    /\ state(tree, 2) = "Free"

\* ------------------------------------------------------- C3
\* C3: once every successful allocation has been freed, every block is Free
\* and the bit buffer is that of a freshly constructed tree.
C3_BalancedIsFresh ==
    live = {} =>
        /\ tree.storage = Fresh(tree).storage
        /\ \A b \in Blocks(tree) : state(tree, b) = "Free"

\* The last of several live allocations has just been freed.
C3_Witness ==
    /\ FreeOk
    /\ live = {}
    /\ lastOp.pre.storage # Fresh(tree).storage
    /\ tree.depth >= 2
    /\ lastOp.arg > 0

\* ------------------------------------------------------- C4
\* C4: every successful allocate(k), k >= 1, returns the smallest power of
\* two >= k as size and an offset that is a multiple of the size;
\* allocate(3) on a fresh tree of 8 leaves returns offset 0, size 4.
C4_SizeAndAlignment ==
    /\ AllocateOk =>
        /\ lastOp.arg >= 1
        /\ lastOp.size = SmallestPowerOfTwoAtLeast(lastOp.arg)
        /\ lastOp.offset % lastOp.size = 0
    /\ ( /\ lastOp.op = "allocate"
         /\ lastOp.arg = 3
         /\ lastOp.pre.depth = 3
         /\ lastOp.pre = Fresh(lastOp.pre) ) =>
        /\ lastOp.result = "Ok"
        /\ lastOp.offset = 0
        /\ lastOp.size = 4

\* A request that is not a power of two, served from a tree in use.
C4_Witness ==
    /\ AllocateOk
    /\ lastOp.arg = 3
    /\ lastOp.size = 4
    /\ lastOp.offset = 4
    /\ lastOp.preLive # {}

\* ------------------------------------------------------- C5
\* The blocks of depth d that are available in t: Free, with only Free or
\* Superblock blocks above them.
Available(t, d) ==
    {b \in Blocks(t) :
        /\ BlockDepth(b) = d
        /\ state(t, b) = "Free"
        /\ \A a \in Ancestors(b) : state(t, a) \in {"Free", "Superblock"}}

\* The unit offsets of the available blocks of size s (a power of two).
AvailableOffsets(t, s) ==
    {BlockOffset(b) * s : b \in Available(t, t.depth - ilog2(s))}

RECURSIVE AllocateAll(_, _)
\* The offsets that a sequence of requests returns, one after the other
\* (a failed request gives None).
AllocateAll(t, sizes) ==
    IF sizes = << >> THEN << >>
    ELSE LET r == TreeAllocate(t, Head(sizes), TRUE)
         IN  << IF r.result = "Ok" THEN Some(r.offset) ELSE None >>
                 \o AllocateAll(r.tree, Tail(sizes))

ScenarioSizes == << 1, 1, 1, 2, 1, 1, 1 >>
ScenarioOffsets ==
    << Some(0), Some(1), Some(2), Some(4), Some(3), Some(6), Some(7) >>

\* C5: a successful allocate returns the lowest offset among the available
\* blocks of the target size; on a tree of 8 leaves the requests
\* 1,1,1,2,1,1,1 return the offsets 0,1,2,4,3,6,7.
C5_LowestAvailableOffset ==
    /\ AllocateOk =>
        /\ lastOp.offset \in AvailableOffsets(lastOp.pre, lastOp.size)
        /\ \A o \in AvailableOffsets(lastOp.pre, lastOp.size) :
               lastOp.offset <= o
    /\ tree.depth = 3 =>
        AllocateAll(Fresh(tree), ScenarioSizes) = ScenarioOffsets

\* The fifth request of the sequence: offset 3 is returned after offset 4.
C5_Witness ==
    /\ AllocateOk
    /\ tree.depth = 3
    /\ lastOp.arg = 1
    /\ lastOp.offset = 3
    /\ lastOp.preLive = {[offset |-> 0, size |-> 1], [offset |-> 1, size |-> 1],
                         [offset |-> 2, size |-> 1], [offset |-> 4, size |-> 2]}

\* ------------------------------------------------------- C6
\* The size-aligned runs of s units inside the extent of t that are disjoint
\* from every allocation of l.
FreeRuns(t, l, s) ==
    {o \in 0 .. Capacity(t) - 1 :
        /\ o % s = 0
        /\ o + s <= Capacity(t)
        /\ \A a \in l : Disjoint(a, [offset |-> o, size |-> s])}

\* C6: allocate(k), k >= 1, returns OutOfMemory if and only if no
\* size-aligned run of the rounded size inside the extent of the tree is
\* disjoint from every live allocation.
C6_OutOfMemoryIffNoBlock ==
    (lastOp.op = "allocate" /\ lastOp.arg >= 1) =>
        ( lastOp.result = "OutOfMemory" <=>
          FreeRuns(lastOp.pre, lastOp.preLive,
                   SmallestPowerOfTwoAtLeast(lastOp.arg)) = {} )

\* What holds of the code: the same for every request that is not larger
\* than the extent of the tree, and for a larger request in a build without
\* overflow checks.
C6_OutOfMemoryIffNoBlockUnlessPanic ==
    (lastOp.op = "allocate" /\ lastOp.arg >= 1 /\ lastOp.result # "Panic") =>
        ( lastOp.result = "OutOfMemory" <=>
          FreeRuns(lastOp.pre, lastOp.preLive,
                   SmallestPowerOfTwoAtLeast(lastOp.arg)) = {} )

\* A request larger than the extent of the tree panics in a build with
\* overflow checks.
C6_PanicOnlyAboveCapacity ==
    (lastOp.op = "allocate" /\ lastOp.result = "Panic") <=>
        ( /\ lastOp.op = "allocate"
          /\ lastOp.arg > Capacity(lastOp.pre)
          /\ lastOp.result # "OutOfMemory" )

\* ------------------------------------------------------- C7
\* C7: free(o) of the offset of a live allocation returns Ok; a free of an
\* offset that was already freed since the last successful allocate returns
\* DoubleFree.
C7_FreeLiveThenDoubleFree ==
    /\ (lastOp.op = "free" /\ lastOp.arg \in LiveOffsets(lastOp.preLive)) =>
           lastOp.result = "Ok"
    /\ (lastOp.op = "free" /\ lastOp.preWatch = Some(lastOp.arg)) =>
           lastOp.result = "DoubleFree"

\* The second free of an offset, while other allocations are still live.
C7_Witness ==
    /\ FreeDoubleFree
    /\ lastOp.preWatch = Some(lastOp.arg)
    /\ live # {}
    /\ lastOp.arg > 0

\* ------------------------------------------------------- C8
\* C8: in any reachable state, a successful allocate immediately followed by
\* free of the returned offset leaves the bit buffer as it was before the
\* allocate.
C8_AllocateFreeRestores ==
    (lastOp.op = "free" /\ IsSome(lastOp.undoes)) =>
        /\ lastOp.result = "Ok"
        /\ tree.storage = Unwrap(lastOp.undoes).storage

\* An allocate undone in a tree that held other allocations.
C8_Witness ==
    /\ FreeOk
    /\ IsSome(lastOp.undoes)
    /\ live # {}
    /\ tree.depth >= 2
    /\ \E b \in 0 .. tree.first_leaf - 1 :
           state(tree, b) = "SuperblockFull"

\* ------------------------------------------------------- C9
\* C9: an allocate that returns OutOfMemory, allocate(0) included, leaves
\* every block's state and the whole bit buffer unchanged.
C9_FailedAllocateUnchanged ==
    AllocateOutOfMemory =>
        /\ tree = lastOp.pre
        /\ \A b \in Blocks(tree) : state(tree, b) = state(lastOp.pre, b)

\* A request of several units refused by a tree that still has free units.
C9_Witness ==
    /\ AllocateOutOfMemory
    /\ lastOp.arg = 2
    /\ \E b \in Blocks(tree) : b >= tree.first_leaf /\ state(tree, b) = "Free"
    /\ tree.depth = 3

\* ------------------------------------------------------- C10
\* C10: free(o) of an offset that is not the offset of a live allocation
\* returns DoubleFree and leaves every block's state unchanged.
C10_FreeOfNonLiveOffset ==
    (lastOp.op = "free" /\ lastOp.arg \notin LiveOffsets(lastOp.preLive)) =>
        /\ lastOp.result = "DoubleFree"
        /\ tree = lastOp.pre
        /\ \A b \in Blocks(tree) : state(tree, b) = state(lastOp.pre, b)

\* A free of an offset inside a larger live allocation.
C10_Witness ==
    /\ FreeDoubleFree
    /\ \E a \in live : a.offset < lastOp.arg /\ lastOp.arg < a.offset + a.size

\* ------------------------------------------------------- C11
\* C11: allocate and free never panic, for any argument in any reachable
\* state: every call returns Ok or a typed error.  The build with overflow
\* checks panics on depth - height when the request exceeds the tree's extent.
C11_NeverPanics ==
    lastOp.op \in {"allocate", "free"} => lastOp.result # "Panic"

\* The half of C11 that holds: free of any offset returns Ok or DoubleFree.
C11_FreeNeverPanics ==
    lastOp.op = "free" => lastOp.result \in {"Ok", "DoubleFree"}

\* ======================================================= Allocator properties
\* Vocabulary of the allocator's properties.
\* Allocator::new returned an allocator (it did not panic).
Constructed == ~(lastOp.op = "Allocator::new" /\ lastOp.result = "Panic")

AllocatorAllocateOk ==
    lastOp.op = "Allocator::allocate" /\ lastOp.result = "Ok"
AllocatorAllocateOutOfMemory ==
    lastOp.op = "Allocator::allocate" /\ lastOp.result = "OutOfMemory"
AllocatorFreeOk == lastOp.op = "Allocator::free" /\ lastOp.result = "Ok"
AllocatorFreeDoubleFree ==
    lastOp.op = "Allocator::free" /\ lastOp.result = "DoubleFree"

\* The units a block of the tree spans: its first unit and one past its last.
BlockFirstUnit(t, b) == BlockOffset(b) * 2 ^ (t.depth - BlockDepth(b))
BlockEndUnit(t, b) == (BlockOffset(b) + 1) * 2 ^ (t.depth - BlockDepth(b))

\* ------------------------------------------------------- C12
\* C12: after any sequence of Allocator::allocate and Allocator::free calls
\* every allocation the allocator returned lies inside the real heap
\* (offset + size <= heap_len_pages), and between calls no Allocated block
\* of the tree extends past heap_len_pages.
C12_AllocationsWithinHeap ==
    Constructed =>
        /\ \A a \in live : a.offset + a.size <= allocator.heap_len_pages
        /\ AllocatorAllocateOk =>
               lastOp.allocation.offset + lastOp.allocation.size
                   <= allocator.heap_len_pages
        /\ \A b \in Blocks(tree) :
               state(tree, b) = "Allocated" =>
                   BlockEndUnit(tree, b) <= allocator.heap_len_pages

\* An allocation was rejected for overflowing a heap smaller than the tree,
\* while another allocation is live.
C12_Witness ==
    /\ AllocatorAllocateOutOfMemory
    /\ lastOp.rejected
    /\ live # {}
    /\ allocator.heap_len_pages < Capacity(tree)

\* ------------------------------------------------------- C13
\* The allocator of the heap_overflow test before the call: a tree of
\* capacity 4 over a heap of 3 pages, with the given live allocations.
HeapOverflowBefore(l) ==
    /\ lastOp.op = "Allocator::allocate"
    /\ Capacity(lastOp.pre) = 4
    /\ allocator.heap_len_pages = 3
    /\ lastOp.preLive = l

\* C13: an Allocator::allocate that rejects a block overflowing the heap
\* returns OutOfMemory and leaves the tree exactly as before the call; with
\* capacity 4 and heap_len_pages 3, allocate(2) succeeds at page offset 0,
\* the next allocate(2) returns OutOfMemory, and allocate(1) then succeeds at
\* page offset 2.
C13_RejectedLeavesTreeUnchanged ==
    /\ (lastOp.op = "Allocator::allocate" /\ lastOp.rejected) =>
           /\ lastOp.result = "OutOfMemory"
           /\ tree = lastOp.pre
           /\ live = lastOp.preLive
    /\ (HeapOverflowBefore({}) /\ lastOp.arg = 2) =>
           /\ lastOp.result = "Ok"
           /\ lastOp.ptr = allocator.heap
    /\ (HeapOverflowBefore({[offset |-> 0, size |-> 2]}) /\ lastOp.arg = 2) =>
           /\ lastOp.result = "OutOfMemory"
           /\ lastOp.rejected
           /\ lastOp.allocation = [offset |-> 2, size |-> 2]
    /\ (HeapOverflowBefore({[offset |-> 0, size |-> 2]}) /\ lastOp.arg = 1) =>
           /\ lastOp.result = "Ok"
           /\ lastOp.ptr = allocator.heap + 2 * PAGE_SIZE

\* The end of the heap_overflow scenario: allocate(1) succeeded at page
\* offset 2 right after the rejected allocate(2).
C13_Witness ==
    /\ HeapOverflowBefore({[offset |-> 0, size |-> 2]})
    /\ lastOp.arg = 1
    /\ lastOp.follows_rejected
    /\ lastOp.result = "Ok"
    /\ lastOp.allocation.offset = 2

\* ------------------------------------------------------- C14
\* The size in bytes of the block behind an allocation of page_count pages.
RoundedSize(page_count) == next_power_of_two(page_count) * PAGE_SIZE

\* C14 as stated: every pointer a successful Allocator::allocate returns is
\* aligned to the allocation's size in bytes, next_pow2(block_count) *
\* PAGE_SIZE.  heap is aligned to a page only, so this fails.
C14_PointerAlignedToSize ==
    AllocatorAllocateOk => lastOp.ptr % RoundedSize(lastOp.arg) = 0

\* C14 as the code has it: every pointer a successful Allocator::allocate
\* returns is aligned to a page, and its distance from heap is a multiple of
\* the allocation's size in bytes.
C14_PointerAlignedFromHeap ==
    AllocatorAllocateOk =>
        /\ lastOp.ptr % PAGE_SIZE = 0
        /\ (lastOp.ptr - allocator.heap) % RoundedSize(lastOp.arg) = 0

\* An allocation of several pages past the first one, at a pointer that is
\* not a multiple of its size.
C14_Witness ==
    /\ AllocatorAllocateOk
    /\ lastOp.arg = 2
    /\ lastOp.ptr > allocator.heap
    /\ lastOp.ptr % RoundedSize(lastOp.arg) # 0

\* ------------------------------------------------------- C15
\* C15 as stated: a successful Allocator::allocate(block_count) whose tree
\* allocation is (offset, size) returns ptr = heap + offset * PAGE_SIZE and
\* a byte size of size * PAGE_SIZE, size being the tree's rounded-up count.
C15_PtrAndRoundedSize ==
    AllocatorAllocateOk =>
        /\ lastOp.ptr = allocator.heap + lastOp.allocation.offset * PAGE_SIZE
        /\ lastOp.size = lastOp.allocation.size * PAGE_SIZE

\* C15 as the code has it: a successful Allocator::allocate(block_count)
\* whose tree allocation is (offset, size), size the power of two that
\* block_count rounds up to, returns ptr = heap + offset * PAGE_SIZE and a
\* byte size of block_count * PAGE_SIZE, at most size * PAGE_SIZE.
C15_PtrAndRequestedSize ==
    AllocatorAllocateOk =>
        /\ lastOp.allocation.size = next_power_of_two(lastOp.arg)
        /\ lastOp.allocation \in live
        /\ lastOp.ptr = allocator.heap + lastOp.allocation.offset * PAGE_SIZE
        /\ lastOp.size = lastOp.arg * PAGE_SIZE
        /\ lastOp.size <= lastOp.allocation.size * PAGE_SIZE

\* An allocation of 3 pages in a block of 4, reported as 3 pages: the first
\* allocate(3) on the range [base, base + 0x5000), a heap of 4 pages.
C15_Witness ==
    /\ AllocatorAllocateOk
    /\ lastOp.range = << Base, Base + 5 * PAGE_SIZE >>
    /\ allocator.heap_len_pages = 4
    /\ lastOp.preLive = {}
    /\ lastOp.arg = 3
    /\ lastOp.allocation = [offset |-> 0, size |-> 4]
    /\ lastOp.ptr = Base + PAGE_SIZE
    /\ lastOp.size = 3 * PAGE_SIZE

\* ------------------------------------------------------- C16
\* k allocations of 16 pages each, packed from the start of the heap.
PackedSixteens(k) == {[offset |-> 16 * i, size |-> 16] : i \in 0 .. k - 1}

\* C16: a successful Allocator::allocate(block_count) reports a byte size of
\* the requested block_count * PAGE_SIZE (allocate(13) reports 0xD000,
\* allocate(17) reports 0x11000), while consecutive allocate(13) results are
\* placed 16 pages apart.
C16_RequestedSizeReported ==
    AllocatorAllocateOk =>
        /\ lastOp.size = lastOp.arg * PAGE_SIZE
        /\ lastOp.arg = 13 => lastOp.size = 53248
        /\ lastOp.arg = 17 => lastOp.size = 69632
        /\ (/\ lastOp.arg = 13
            /\ lastOp.preLive = PackedSixteens(Cardinality(lastOp.preLive))) =>
               /\ lastOp.allocation.size = 16
               /\ lastOp.ptr = allocator.heap
                      + 16 * Cardinality(lastOp.preLive) * PAGE_SIZE

\* The third allocate(13) of tests::allocator: 0xD000 bytes, 32 pages from
\* heap.
C16_Witness ==
    /\ AllocatorAllocateOk
    /\ lastOp.arg = 13
    /\ lastOp.preLive = PackedSixteens(2)
    /\ lastOp.size = 53248
    /\ lastOp.ptr = Base + 139264

\* ------------------------------------------------------- C17
\* The blocks of the tree that are Allocated, as allocations.
AllocatedBlocks(t) ==
    {[offset |-> BlockFirstUnit(t, b),
      size |-> BlockEndUnit(t, b) - BlockFirstUnit(t, b)] :
        b \in {c \in Blocks(t) : state(t, c) = "Allocated"}}

\* C17: Allocator::free of a pointer whose page offset from heap is
\* negative, greater than heap_len_pages, or not the offset of a live
\* allocation (heap_len_pages itself included, which passes the range check
\* and goes to the tree) returns DoubleFree and leaves the tree unchanged;
\* it returns Ok exactly when a live allocation starts at that offset, and
\* then frees that allocation and no other.
C17_AllocatorFree ==
    lastOp.op = "Allocator::free" =>
        /\ (\/ lastOp.arg < 0
            \/ lastOp.arg > allocator.heap_len_pages
            \/ lastOp.arg \notin LiveOffsets(lastOp.preLive)) =>
               /\ lastOp.result = "DoubleFree"
               /\ tree = lastOp.pre
               /\ live = lastOp.preLive
        /\ lastOp.result = "Ok" <=> lastOp.arg \in LiveOffsets(lastOp.preLive)
        /\ lastOp.result = "Ok" =>
               /\ live = {a \in lastOp.preLive : a.offset # lastOp.arg}
               /\ AllocatedBlocks(lastOp.pre) = lastOp.preLive
               /\ AllocatedBlocks(tree) = live

\* A free at the end of a heap smaller than the tree, which the range check
\* lets through and the tree refuses, while allocations are live.
C17_Witness ==
    /\ AllocatorFreeDoubleFree
    /\ lastOp.arg = allocator.heap_len_pages
    /\ lastOp.arg < Capacity(tree)
    /\ live # {}

\* ------------------------------------------------------- C18
\* Vocabulary of the sizing properties, independent of the allocator's code:
\* x rounded up to a multiple of align, the pages between start rounded up
\* and end, and the bytes that hold two bits for each block of the smallest
\* complete tree with at least n leaves.
AlignUp(x, align) == ((x + align - 1) \div align) * align
NominalPages(start, end) == (end - AlignUp(start, PAGE_SIZE)) \div PAGE_SIZE
StorageBytes(n) == (2 * (2 * SmallestPowerOfTwoAtLeast(n) - 1) + 7) \div 8

\* Allocator::new was the last call, with these arguments.
AllocatorNewOf(start, end) ==
    lastOp.op = "Allocator::new" /\ lastOp.arg = << start, end >>

\* C18: Allocator::new(start, end) computes nominal_pages = (end -
\* align_up(start, PAGE_SIZE)) / PAGE_SIZE, tree_len = the storage bytes
\* required for nominal_pages, heap = align_up(start + tree_len, PAGE_SIZE)
\* and heap_len_pages = (end - heap) / PAGE_SIZE; the range [base + 0x1100,
\* base + 0x100000) gives tree_len 128 and heap_len_pages 254, the range
\* [base + 0x1100, base + 0x5000) gives tree_len 2 and heap_len_pages 3.
C18_AllocatorNewFields ==
    /\ \A end \in TestEnds :
           AllocatorNewOf(TestStart, end) =>
               /\ lastOp.result = "Ok"
               /\ allocator.tree_len =
                      StorageBytes(NominalPages(TestStart, end))
               /\ allocator.heap =
                      AlignUp(TestStart + allocator.tree_len, PAGE_SIZE)
               /\ allocator.heap_len_pages =
                      (end - allocator.heap) \div PAGE_SIZE
               /\ Capacity(tree) >= NominalPages(TestStart, end)
               /\ Capacity(tree) < 2 * NominalPages(TestStart, end)
    /\ AllocatorNewOf(Base + 4352, Base + 1048576) =>
           allocator.tree_len = 128 /\ allocator.heap_len_pages = 254
    /\ AllocatorNewOf(Base + 4352, Base + 20480) =>
           allocator.tree_len = 2 /\ allocator.heap_len_pages = 3

\* Allocator::new has just returned on the range of tests::allocator: 254
\* nominal pages, a tree of 256 leaves.
C18_Witness ==
    /\ AllocatorNewOf(Base + 4352, Base + 1048576)
    /\ lastOp.result = "Ok"
    /\ NominalPages(Base + 4352, Base + 1048576) = 254
    /\ Capacity(tree) = 256
    /\ allocator.heap = Base + 8192

\* ------------------------------------------------------- C19
\* C19: for every start and page-aligned end with at least one nominal page,
\* Allocator::new establishes heap_len_pages <= nominal_pages, the pages the
\* tree is sized for, and heap <= end, so that heap_len_pages is not
\* negative.
C19_HeapWithinNominal ==
    \A start \in Starts, end \in Ends :
        (/\ AllocatorNewOf(start, end)
         /\ end % PAGE_SIZE = 0
         /\ NominalPages(start, end) >= 1) =>
            /\ lastOp.result = "Ok"
            /\ allocator.heap_len_pages <= NominalPages(start, end)
            /\ NominalPages(start, end) <= Capacity(tree)
            /\ allocator.heap <= end
            /\ allocator.heap_len_pages >= 0
            /\ allocator.heap_len_pages * PAGE_SIZE = end - allocator.heap

\* Allocator::new has just returned on a range whose tree takes more bytes
\* than lie before the first page boundary: the heap is smaller than the
\* nominal pages.
C19_Witness ==
    /\ lastOp.op = "Allocator::new"
    /\ lastOp.result = "Ok"
    /\ lastOp.arg[1] % PAGE_SIZE = PAGE_SIZE - 1
    /\ allocator.heap_len_pages < NominalPages(lastOp.arg[1], lastOp.arg[2])
    /\ allocator.heap_len_pages >= 1

\* ------------------------------------------------------- C20
\* C20: for every leaf_blocks >= 1, storage_bits_required(leaf_blocks) is
\* 3L - 2, L being leaf_blocks rounded up to a power of two: 2 bits for each
\* of the L - 1 internal blocks and 1 bit for each of the L leaves (1, 4,
\* 10, 10, 22 for 1, 2, 3, 4, 5..8); for leaf_blocks = 0 it panics.
C20_StorageBitsRequired ==
    lastOp.op = "storage_bits_required" =>
        /\ lastOp.arg = 0 <=> lastOp.result = "Panic"
        /\ lastOp.arg >= 1 =>
               /\ lastOp.result = "Ok"
               /\ lastOp.bits = 3 * SmallestPowerOfTwoAtLeast(lastOp.arg) - 2
        /\ lastOp.arg = 1 => lastOp.bits = 1
        /\ lastOp.arg = 2 => lastOp.bits = 4
        /\ lastOp.arg \in {3, 4} => lastOp.bits = 10
        /\ lastOp.arg \in 5 .. 8 => lastOp.bits = 22

\* The bits of a tree for 5 leaf blocks, rounded up to 8 leaves.
C20_Witness ==
    /\ lastOp.op = "storage_bits_required"
    /\ lastOp.arg = 5
    /\ lastOp.result = "Ok"
    /\ lastOp.bits = 22

\* ------------------------------------------------------- C21
\* Two calls of storage_bits_required in a row returned.
TwoSizings ==
    /\ lastOp.op = "storage_bits_required"
    /\ lastOp.result = "Ok"
    /\ IsSome(lastOp.prev)

\* C21: storage_bits_required(k) is monotonically non-decreasing in k for
\* k >= 1, and equal for j and k that round up to the same power of two.
C21_StorageBitsMonotone ==
    TwoSizings =>
        LET j == Unwrap(lastOp.prev).arg
            bits_j == Unwrap(lastOp.prev).bits
        IN  /\ j <= lastOp.arg => bits_j <= lastOp.bits
            /\ SmallestPowerOfTwoAtLeast(j)
                   = SmallestPowerOfTwoAtLeast(lastOp.arg) =>
                   bits_j = lastOp.bits

\* The bits for 5 and then for 8 leaf blocks, the same tree of 8 leaves.
C21_Witness ==
    /\ TwoSizings
    /\ Unwrap(lastOp.prev).arg = 5
    /\ lastOp.arg = 8
    /\ lastOp.bits = Unwrap(lastOp.prev).bits

\* ------------------------------------------------------- C22
\* Every block of the tree reads as Free.
AllFree(t) == \A b \in Blocks(t) : state(t, b) = "Free"

\* C22: right after Tree::new(buffer, leaf_blocks) every block reads as
\* Free, whatever the buffer held before, so that the first allocate(1)
\* returns offset 0.
C22_NewTreeAllFree ==
    /\ lastOp.op = "new" =>
           /\ AllFree(tree)
           /\ \A i \in DOMAIN tree.storage : tree.storage[i] = FALSE
    /\ (lastOp.op = "allocate" /\ lastOp.arg = 1 /\ AllFree(lastOp.pre)) =>
           /\ lastOp.result = "Ok"
           /\ Returned = [offset |-> 0, size |-> 1]

\* A tree of 8 leaves just built over a buffer of bytes 0xFF.
C22_Witness ==
    /\ lastOp.op = "new"
    /\ lastOp.fill
    /\ tree.depth = 3
    /\ AllFree(tree)

\* ------------------------------------------------------- C23
\* The bits of the storage that state and set_state touch for block b: two
\* bits from 2b for a non-leaf block, one bit after the non-leaf bits for a
\* leaf block.
BlockBits(t, b) ==
    IF b < 2 ^ t.depth - 1
    THEN {2 * b, 2 * b + 1}
    ELSE {2 * (2 ^ t.depth - 1) + (b - (2 ^ t.depth - 1))}

\* C23: Tree::new(buffer, leaf_blocks) panics exactly when leaf_blocks is 0
\* or the buffer holds fewer than storage_bits_required(leaf_blocks) bits;
\* for every other input it returns a tree, and no access of allocate or
\* free after it reaches a bit outside the first
\* storage_bits_required(leaf_blocks) bits: the storage is those bits, the
\* bits of every block lie in it, and no call panics on a block access.
C23_NewPanicsAndBitsInBounds ==
    /\ lastOp.op = "new" =>
           (lastOp.result = "Panic" <=>
               \/ lastOp.arg = 0
               \/ 8 * lastOp.bytes
                      < 3 * SmallestPowerOfTwoAtLeast(lastOp.arg) - 2)
    /\ HasTree =>
           /\ DOMAIN tree.storage = 0 .. 3 * Capacity(tree) - 3
           /\ Capacity(tree) = SmallestPowerOfTwoAtLeast(tree.leaf_blocks)
           /\ \A b \in Blocks(tree) : BlockBits(tree, b) \subseteq DOMAIN tree.storage
    /\ (lastOp.op \in {"allocate", "free"} /\ lastOp.result = "Panic") =>
           /\ lastOp.op = "allocate"
           /\ lastOp.arg > Capacity(lastOp.pre)

\* Tree::new refused a buffer one byte too narrow for a tree of 8 leaves.
C23_Witness ==
    /\ lastOp.op = "new"
    /\ lastOp.arg = 5
    /\ lastOp.bytes = 2
    /\ lastOp.result = "Panic"

\* ------------------------------------------------------- C24
\* The blocks below b in the tree.
Descendants(t, b) == {c \in Blocks(t) : b \in Ancestors(c)}

\* C24: in every reachable state a block in state Allocated has no ancestor
\* in state Allocated and no descendant in state Allocated.
C24_AllocatedNotNested ==
    \A b \in Blocks(tree) :
        state(tree, b) = "Allocated" =>
            /\ \A a \in Ancestors(b) : state(tree, a) # "Allocated"
            /\ \A c \in Descendants(tree, b) : state(tree, c) # "Allocated"

\* An Allocated block of 2 units or more next to Allocated leaf blocks in a
\* tree of 8 leaves.
C24_Witness ==
    /\ tree.depth = 3
    /\ \E b \in Blocks(tree) :
           b < tree.first_leaf /\ b # root /\ state(tree, b) = "Allocated"
    /\ \E c \in Blocks(tree) :
           c >= tree.first_leaf /\ state(tree, c) = "Allocated"

\* ------------------------------------------------------- C25
\* C25: in every reachable state a block in state Free has no descendant in
\* state Allocated, Superblock or SuperblockFull.
C25_FreeHasFreeDescendants ==
    \A b \in Blocks(tree) :
        state(tree, b) = "Free" =>
            \A c \in Descendants(tree, b) : state(tree, c) = "Free"

\* A free has just coalesced sub-blocks into a Free block of 4 units while
\* another allocation is live.
C25_Witness ==
    /\ FreeOk
    /\ tree.depth = 3
    /\ live # {}
    /\ \E b \in {1, 2} :
           state(tree, b) = "Free" /\ state(lastOp.pre, b) # "Free"

\* ------------------------------------------------------- C26
\* The blocks below b that a walk from b reaches through superblocks only.
ReachableDescendants(t, b) ==
    {c \in Descendants(t, b) :
        \A a \in Ancestors(c) \cap Descendants(t, b) :
            state(t, a) \in {"Superblock", "SuperblockFull"}}

\* C26: in every reachable state a block in state SuperblockFull has no
\* reachable Free descendant, so that allocate, which does not search below
\* a SuperblockFull block, never passes over an available block: every unit
\* below it belongs to a live allocation.
C26_SuperblockFullHasNoFree ==
    \A b \in Blocks(tree) :
        state(tree, b) = "SuperblockFull" =>
            /\ \A c \in ReachableDescendants(tree, b) :
                   state(tree, c) # "Free"
            /\ \A u \in BlockFirstUnit(tree, b) .. BlockEndUnit(tree, b) - 1 :
                   \E a \in live : a.offset <= u /\ u < a.offset + a.size

\* A SuperblockFull block above another SuperblockFull block, in a tree that
\* still has a Free leaf block.
C26_Witness ==
    /\ AllocateOk
    /\ tree.depth = 3
    /\ \E b \in Blocks(tree) :
           /\ b # root
           /\ state(tree, b) = "SuperblockFull"
           /\ state(tree, Unwrap(superblock(b))) = "SuperblockFull"
    /\ \E c \in Blocks(tree) :
           c >= tree.first_leaf /\ state(tree, c) = "Free"
           /\ \A a \in Ancestors(c) : state(tree, a) = "Superblock"

\* ------------------------------------------------------- C27
\* The leaf blocks of a tree.
Leaves(t) == {b \in Blocks(t) : b >= 2 ^ t.depth - 1}

\* C27: leaf blocks are only ever Free or Allocated: for every tree depth,
\* the single-block tree included, no allocate or free calls set_state on a
\* leaf block with Superblock or SuperblockFull, so the panic "leaf blocks
\* cannot be superblocks" is unreachable: free never panics, and allocate
\* panics only on the subtraction of a height above the tree's depth.
C27_LeavesNeverSuperblocks ==
    /\ \A b \in Leaves(tree) : state(tree, b) \in {"Free", "Allocated"}
    /\ lastOp.op = "free" => lastOp.result # "Panic"
    /\ (/\ lastOp.op = "allocate"
        /\ lastOp.arg >= 1
        /\ \E h \in 0 .. lastOp.pre.depth : lastOp.arg <= 2 ^ h) =>
           lastOp.result # "Panic"

\* The only block of a single-block tree, a leaf and the root at once, has
\* just been allocated.
C27_Witness ==
    /\ AllocateOk
    /\ tree.depth = 0
    /\ Leaves(tree) = {root}
    /\ state(tree, root) = "Allocated"

\* ------------------------------------------------------- C28
\* The Allocated blocks of a tree, and those whose first unit is offset.
AllocatedIndices(t) == {b \in Blocks(t) : state(t, b) = "Allocated"}
AllocatedAt(t, offset) ==
    {b \in AllocatedIndices(t) : BlockFirstUnit(t, b) = offset}

\* C28: in every reachable state at most one Allocated block has a given
\* unit offset, and a successful free(o) removes exactly the one live
\* allocation at offset o: the block it frees is the Allocated block at o,
\* every other Allocated block stays Allocated, and every other live
\* allocation is live afterwards with its offset and size.
C28_FreeRemovesExactlyOne ==
    /\ \A o \in 0 .. Capacity(tree) - 1 :
           Cardinality(AllocatedAt(tree, o)) <= 1
    /\ AllocatedBlocks(tree) = live
    /\ FreeOk =>
        /\ Cardinality(AllocatedAt(lastOp.pre, lastOp.arg)) = 1
        /\ AllocatedIndices(tree) =
               AllocatedIndices(lastOp.pre) \ AllocatedAt(lastOp.pre, lastOp.arg)
        /\ \E freed \in lastOp.preLive :
               /\ freed.offset = lastOp.arg
               /\ live = lastOp.preLive \ {freed}
               /\ AllocatedBlocks(tree) = AllocatedBlocks(lastOp.pre) \ {freed}

\* A free succeeded between two other live allocations, one at a smaller
\* and one at a greater offset, that are still live.
C28_Witness ==
    /\ FreeOk
    /\ \E a \in live : a.offset < lastOp.arg
    /\ \E a \in live : a.offset > lastOp.arg
    /\ AllocatedAt(tree, lastOp.arg) = {}

\* ------------------------------------------------------- C29
RECURSIVE AllocateAllTree(_, _)
\* The tree after a sequence of requests, made one after the other.
AllocateAllTree(t, sizes) ==
    IF sizes = << >> THEN t
    ELSE AllocateAllTree(TreeAllocate(t, Head(sizes), TRUE).tree, Tail(sizes))

\* The allocation that the successful free just made released.
Freed == CHOOSE a \in lastOp.preLive : a.offset = lastOp.arg

\* An allocate was called right after a successful free.
AllocateAfterFree ==
    lastOp.op = "allocate" /\ IsSome(lastOp.reuses)

\* C29: freed space is reusable and coalesces.  An allocate(k) that comes
\* immediately after a successful free of a live allocation of size s, with
\* 1 <= k <= s, succeeds and returns an offset no greater than the freed
\* offset; in the state after the free every such request would succeed so;
\* and on a tree of 8 leaves filled by the requests 1,1,1,2,1,1,1, free(4)
\* followed by allocate(2) returns offset 4 and size 2 again.
C29_FreedSpaceReusable ==
    /\ (AllocateAfterFree /\ lastOp.arg \in 1 .. Unwrap(lastOp.reuses).size) =>
        /\ lastOp.result = "Ok"
        /\ lastOp.offset <= Unwrap(lastOp.reuses).offset
    /\ FreeOk =>
        \A k \in 1 .. Freed.size :
            \E r \in {TreeAllocate(tree, k, TRUE)} :
                r.result = "Ok" /\ r.offset <= Freed.offset
    /\ tree.depth = 3 =>
        \E filled \in {AllocateAllTree(Fresh(tree), ScenarioSizes)} :
        \E freed \in {TreeFree(filled, 4)} :
        \E again \in {TreeAllocate(freed.tree, 2, TRUE)} :
            /\ freed.result = "Ok"
            /\ again.result = "Ok"
            /\ again.offset = 4
            /\ again.size = 2

\* The scenario: every unit of the 8-leaf tree was allocated by the requests
\* 1,1,1,2,1,1,1, the allocation of size 2 at offset 4 was freed, and the
\* request for 2 units that followed returned offset 4 and size 2 again.
C29_Witness ==
    /\ AllocateAfterFree
    /\ tree.depth = 3
    /\ lastOp.reuses = Some([offset |-> 4, size |-> 2])
    /\ lastOp.arg = 2
    /\ lastOp.result = "Ok"
    /\ Returned = [offset |-> 4, size |-> 2]
    /\ lastOp.pre = TreeFree(AllocateAllTree(Fresh(tree), ScenarioSizes), 4).tree

\* ------------------------------------------------------- C30
\* The tree as Tree::allocate left it inside the last Allocator::allocate,
\* before the rollback.
BeforeRollback == TreeAllocate(lastOp.pre, lastOp.arg, TRUE).tree

\* C30: the free by which Allocator::allocate rolls back an allocation that
\* overflows the heap always returns Ok, so the expect("Guaranteed by
\* allocate") never panics: a rejected allocation ends in OutOfMemory, its
\* block is Allocated at the offset passed to free, and in every running
\* allocator state the free of what allocate would return succeeds.
C30_RollbackFreeOk ==
    /\ (lastOp.op = "Allocator::allocate" /\ lastOp.rejected) =>
        /\ lastOp.result = "OutOfMemory"
        /\ Cardinality(AllocatedAt(BeforeRollback, lastOp.allocation.offset)) = 1
        /\ TreeFree(BeforeRollback, lastOp.allocation.offset).result = "Ok"
    /\ (Constructed /\ Running) =>
        \A k \in 1 .. Capacity(tree) :
            \E r \in {TreeAllocate(tree, k, TRUE)} :
                r.result = "Ok" => TreeFree(r.tree, r.offset).result = "Ok"

\* A rollback happened at an offset other than the size of the rejected
\* allocation, with other allocations live.
C30_Witness ==
    /\ lastOp.op = "Allocator::allocate"
    /\ lastOp.rejected
    /\ lastOp.result = "OutOfMemory"
    /\ lastOp.allocation.offset # lastOp.allocation.size
    /\ lastOp.preLive # {}
    /\ tree = lastOp.pre

\* ------------------------------------------------------- C31
\* The offsets of the blocks of s pages that are available in t and lie
\* entirely inside the heap of a.
FittingOffsets(a, t, s) ==
    {o \in AvailableOffsets(t, s) : o + s <= a.heap_len_pages}

\* C31 as stated: Allocator::allocate(k) returns OutOfMemory only when no
\* available block of size next_pow2(k) lies entirely inside
\* [0, heap_len_pages), for every k.
C31_OutOfMemoryOnlyWithoutFit ==
    AllocatorAllocateOutOfMemory =>
        FittingOffsets(allocator, lastOp.pre,
                       next_power_of_two(lastOp.arg)) = {}

\* C31 as it holds: Allocator::allocate(k) with k >= 1 returns OutOfMemory
\* only when no available block of size next_pow2(k) lies entirely inside
\* [0, heap_len_pages); when the tree's block was rejected, every available
\* block of that size overflows the heap.  allocate(0) returns OutOfMemory
\* whatever is available.
C31_OutOfMemoryOnlyWithoutFitForPositive ==
    /\ (AllocatorAllocateOutOfMemory /\ lastOp.arg >= 1) =>
        FittingOffsets(allocator, lastOp.pre,
                       next_power_of_two(lastOp.arg)) = {}
    /\ (lastOp.op = "Allocator::allocate" /\ lastOp.rejected) =>
        \A o \in AvailableOffsets(lastOp.pre, lastOp.allocation.size) :
            /\ o >= lastOp.allocation.offset
            /\ o + lastOp.allocation.size > allocator.heap_len_pages
    /\ (lastOp.op = "Allocator::allocate" /\ lastOp.arg = 0) =>
        /\ lastOp.result = "OutOfMemory"
        /\ tree = lastOp.pre
        /\ ~lastOp.rejected

\* The tree offered its lowest available block of the size, the block
\* overflowed the heap and was rejected, and another block of that size was
\* available at a higher offset.
C31_Witness ==
    /\ AllocatorAllocateOutOfMemory
    /\ lastOp.rejected
    /\ lastOp.arg >= 1
    /\ Cardinality(AvailableOffsets(lastOp.pre, lastOp.allocation.size)) >= 2

\* ------------------------------------------------------- C32
\* Block b is, or lies below, block a.
InSubtree(b, a) == b = a \/ a \in Ancestors(b)

\* Left-sub-block-first pre-order: b comes before c when b is above c, or
\* when b lies in the left and c in the right sub-block of a common block.
Before(b, c) ==
    /\ b # c
    /\ \/ b \in Ancestors(c)
       \/ \E a \in Ancestors(b) \cap Ancestors(c) :
              InSubtree(b, 2 * a + 1) /\ InSubtree(c, 2 * a + 2)

\* The blocks a walk with visitor v gets to when nothing yields: those below
\* which the visitor descended all the way from the root.
Reached(t, v) ==
    {b \in Blocks(t) : \A a \in Ancestors(b) : v[a] = "Descend"}
Yielders(t, v) == {b \in Reached(t, v) : v[b] = "Yield"}
FirstYielder(t, v) ==
    CHOOSE y \in Yielders(t, v) :
        \A z \in Yielders(t, v) \ {y} : Before(y, z)
Visited(t, v) ==
    IF Yielders(t, v) = {} THEN Reached(t, v)
    ELSE {b \in Reached(t, v) :
             b = FirstYielder(t, v) \/ Before(b, FirstYielder(t, v))}

\* The visitors of the source's tests on a tree of depth 3.
DescendAlways == [b \in 0 .. 14 |-> "Descend"]
SkipFourAndTwo == [b \in 0 .. 14 |-> IF b \in {4, 2} THEN "Skip" ELSE "Descend"]
YieldFive == [b \in 0 .. 14 |-> IF b = 5 THEN "Yield" ELSE "Descend"]

\* C32: Tree::preorder visits blocks in left-sub-block-first pre-order
\* (0,1,3,7,8,4,9,10,2,5,11,12,6,13,14 on a tree of depth 3 when the visitor
\* always descends); a Skip omits exactly the blocks below the skipped block
\* and the walk goes on with the next sibling; a Yield stops the walk at
\* once, no later block is visited and the yielded value is returned; if no
\* block yields the result is None.
C32_PreorderWalk ==
    lastOp.op = "preorder" =>
        LET v == lastOp.visitor
            order == lastOp.order
        IN  /\ {order[i] : i \in 1 .. Len(order)} = Visited(tree, v)
            /\ \A i, j \in 1 .. Len(order) :
                   i < j => Before(order[i], order[j])
            /\ Yielders(tree, v) = {} => lastOp.result = None
            /\ Yielders(tree, v) # {} =>
                   /\ lastOp.result = Some(FirstYielder(tree, v))
                   /\ order[Len(order)] = FirstYielder(tree, v)
            /\ \A b \in Blocks(tree) :
                   (v[b] = "Skip" /\ b \in Visited(tree, v)) =>
                       \A c \in Blocks(tree) \ {b} :
                           InSubtree(c, b) => c \notin Visited(tree, v)
            /\ (tree.depth = 3 /\ v = DescendAlways) =>
                   /\ order = << 0, 1, 3, 7, 8, 4, 9, 10, 2, 5, 11, 12, 6,
                                 13, 14 >>
                   /\ lastOp.result = None
            /\ (tree.depth = 3 /\ v = SkipFourAndTwo) =>
                   /\ order = << 0, 1, 3, 7, 8, 4, 2 >>
                   /\ lastOp.result = None
            /\ (tree.depth = 3 /\ v = YieldFive) =>
                   /\ order = << 0, 1, 3, 7, 8, 4, 9, 10, 2, 5 >>
                   /\ lastOp.result = Some(5)

\* A walk of a tree of depth 3 that skipped block 4, went on with its
\* sibling's superblock 2 and stopped at block 5, which yielded.
C32_Witness ==
    /\ lastOp.op = "preorder"
    /\ tree.depth = 3
    /\ lastOp.visitor[4] = "Skip"
    /\ lastOp.visitor[5] = "Yield"
    /\ lastOp.order = << 0, 1, 3, 7, 8, 4, 2, 5 >>
    /\ lastOp.result = Some(5)

\* ------------------------------------------------------- C33
\* x XOR 1: the number that differs from x in its lowest bit only.
XorOne(x) ==
    CHOOSE y \in {x - 1, x + 1} : y >= 0 /\ y \div 2 = x \div 2

\* The values that the source's block_index test asserts for the blocks 0
\* to 14: superblock, buddy, depth, offset.
BlockIndexTest ==
    << << None, None, 0, 0 >>,
       << Some(0), Some(2), 1, 0 >>, << Some(0), Some(1), 1, 1 >>,
       << Some(1), Some(4), 2, 0 >>, << Some(1), Some(3), 2, 1 >>,
       << Some(2), Some(6), 2, 2 >>, << Some(2), Some(5), 2, 3 >>,
       << Some(3), Some(8), 3, 0 >>, << Some(3), Some(7), 3, 1 >>,
       << Some(4), Some(10), 3, 2 >>, << Some(4), Some(9), 3, 3 >>,
       << Some(5), Some(12), 3, 4 >>, << Some(5), Some(11), 3, 5 >>,
       << Some(6), Some(14), 3, 6 >>, << Some(6), Some(13), 3, 7 >> >>

\* C33: for every non-root block index i, superblock(i) = (i-1)/2,
\* buddy(i) = ((i-1) XOR 1) + 1, buddy(buddy(i)) = i, buddy(i) # i,
\* superblock(buddy(i)) = superblock(i), and subblocks(superblock(i)) =
\* {i, buddy(i)}; for every index i, depth(i) = floor(log2(i+1)) and
\* offset(i) = i + 1 - 2^depth(i) with 0 <= offset(i) < 2^depth(i),
\* subblocks(i) = (2i+1, 2i+2); the root, index 0, has no superblock and no
\* buddy.
C33_BlockIndexArithmetic ==
    lastOp.op = "BlockIndex" =>
        LET i == lastOp.arg IN
        /\ lastOp.is_root <=> i = 0
        /\ i = 0 => lastOp.superblock = None /\ lastOp.buddy = None
        /\ i # 0 =>
            /\ lastOp.superblock = Some((i - 1) \div 2)
            /\ lastOp.buddy = Some(XorOne(i - 1) + 1)
            /\ lastOp.buddy # Some(i)
            /\ buddy(Unwrap(lastOp.buddy)) = Some(i)
            /\ superblock(Unwrap(lastOp.buddy)) = lastOp.superblock
            /\ LET sub == subblocks(Unwrap(lastOp.superblock))
               IN  {sub[1], sub[2]} = {i, Unwrap(lastOp.buddy)}
        /\ lastOp.subblocks = << 2 * i + 1, 2 * i + 2 >>
        /\ superblock(lastOp.subblocks[1]) = Some(i)
        /\ superblock(lastOp.subblocks[2]) = Some(i)
        /\ 2 ^ lastOp.depth <= i + 1
        /\ i + 1 < 2 ^ (lastOp.depth + 1)
        /\ lastOp.offset = i + 1 - 2 ^ lastOp.depth
        /\ 0 <= lastOp.offset
        /\ lastOp.offset < 2 ^ lastOp.depth
        /\ i <= 14 =>
            << lastOp.superblock, lastOp.buddy, lastOp.depth, lastOp.offset >>
                = BlockIndexTest[i + 1]

\* The functions were called on block 12, a right sub-block below the right
\* half of the tree: superblock 5, buddy 11, depth 3, offset 5.
C33_Witness ==
    /\ lastOp.op = "BlockIndex"
    /\ lastOp.arg = 12
    /\ lastOp.superblock = Some(5)
    /\ lastOp.buddy = Some(11)
    /\ lastOp.depth = 3
    /\ lastOp.offset = 5

\* ------------------------------------------------------- C34
\* The tree with bit i of its storage flipped.
FlipBit(t, i) == [t EXCEPT !.storage = [@ EXCEPT ![i] = ~@]]

\* C34: the state accessors agree with the bit layout and with the sizing
\* helper.  set_state(b, s) with s legal for b, followed by state(b), returns
\* s and leaves state(c) unchanged for every other block c; non-leaf block i
\* uses the bits 2i and 2i+1, leaf block i the single bit
\* 2*first_leaf + (i - first_leaf): set_state writes no other bit and state
\* reads each of them; no two blocks share a bit, and every bit index is
\* below storage_bits_required(leaf_blocks).
C34_AccessorsAgreeWithLayout ==
    /\ (lastOp.op = "set_state" /\ lastOp.result = "Ok") =>
        /\ state(tree, lastOp.arg[1]) = lastOp.arg[2]
        /\ \A c \in Blocks(tree) \ {lastOp.arg[1]} :
               state(tree, c) = state(lastOp.pre, c)
        /\ \A i \in DOMAIN tree.storage :
               i \notin BlockBits(tree, lastOp.arg[1]) =>
                   tree.storage[i] = lastOp.pre.storage[i]
    /\ (lastOp.op = "set_state" /\ lastOp.result = "Panic") =>
        \/ lastOp.arg[1] \notin Blocks(tree)
        \/ /\ lastOp.arg[1] \in Leaves(tree)
           /\ lastOp.arg[2] \in {"Superblock", "SuperblockFull"}
    /\ lastOp.op \in {"new", "set_state"} =>
        /\ tree.first_leaf = 2 ^ tree.depth - 1
        /\ \A b \in Blocks(tree) :
               /\ Cardinality(BlockBits(tree, b)) =
                      IF b \in Leaves(tree) THEN 1 ELSE 2
               /\ \A i \in BlockBits(tree, b) :
                      /\ i >= 0
                      /\ i < storage_bits_required(tree.leaf_blocks)
                      /\ i \in DOMAIN tree.storage
                      /\ state(FlipBit(tree, i), b) # state(tree, b)
                      /\ \A c \in Blocks(tree) \ {b} :
                             state(FlipBit(tree, i), c) = state(tree, c)
               /\ \A c \in Blocks(tree) \ {b} :
                      BlockBits(tree, b) \cap BlockBits(tree, c) = {}

\* On a tree of depth 3 the root was set to SuperblockFull and then the
\* first leaf block to Allocated: bits 0, 1 and 14 are set and no other.
C34_Witness ==
    /\ lastOp.op = "set_state"
    /\ lastOp.result = "Ok"
    /\ tree.depth = 3
    /\ lastOp.arg = << 7, "Allocated" >>
    /\ state(tree, 0) = "SuperblockFull"
    /\ {i \in DOMAIN tree.storage : tree.storage[i]} = {0, 1, 14}

\* ------------------------------------------------------- C35
\* C35: Tree::new(buffer, n) builds a tree of depth D, the smallest D with
\* 2^D >= n (0 when n = 1), with first_leaf = 2^D - 1, and no call changes
\* them; in every reachable state each successful allocation satisfies
\* offset + size <= 2^D.  The stored leaf_blocks n is not a bound: an
\* allocation may end past n, never past 2^D.
C35_DepthAndExtent ==
    /\ 2 ^ tree.depth >= tree.leaf_blocks
    /\ tree.depth > 0 => 2 ^ (tree.depth - 1) < tree.leaf_blocks
    /\ tree.leaf_blocks = 1 => tree.depth = 0
    /\ tree.first_leaf = 2 ^ tree.depth - 1
    /\ lastOp.op = "new" => tree.leaf_blocks = lastOp.arg
    /\ lastOp.op \in {"allocate", "free"} =>
        /\ tree.depth = lastOp.pre.depth
        /\ tree.first_leaf = lastOp.pre.first_leaf
        /\ tree.leaf_blocks = lastOp.pre.leaf_blocks
    /\ AllocateOk =>
        /\ lastOp.size >= 1
        /\ lastOp.offset >= 0
        /\ lastOp.offset + lastOp.size <= 2 ^ tree.depth
    /\ \A a \in live : a.offset + a.size <= 2 ^ tree.depth
    /\ \A b \in AllocatedIndices(tree) :
           BlockEndUnit(tree, b) <= 2 ^ tree.depth

\* On a tree built for 5 leaf blocks, of depth 3, an allocation of 2 units
\* was returned at offset 6: it lies past the 5 leaf blocks and ends at the
\* 8 units of the tree.
C35_Witness ==
    /\ AllocateOk
    /\ tree.leaf_blocks = 5
    /\ tree.depth = 3
    /\ Returned = [offset |-> 6, size |-> 2]
    /\ lastOp.offset >= tree.leaf_blocks

\* ------------------------------------------------------- C36
\* The byte ranges of the allocator: the tree's storage, and the block
\* behind the allocation that the last Allocator::allocate returned.
StorageFirstByte == lastOp.range[1]
StorageEndByte == lastOp.range[1] + allocator.tree_len
RangeEndByte == lastOp.range[2]
BlockFirstByte == lastOp.ptr
BlockEndByte == lastOp.ptr + next_power_of_two(lastOp.arg) * PAGE_SIZE

\* C36: the pages handed out by the allocator never overlap the tree's
\* storage.  For every range accepted by Allocator::new,
\* heap >= start + tree_len, and for every successful allocation the byte
\* range [ptr, ptr + next_pow2(block_count) * PAGE_SIZE) is disjoint from
\* [start, start + tree_len) and contained in [heap, end).
C36_PagesDisjointFromStorage ==
    Constructed =>
        /\ allocator.tree_len >= 0
        /\ allocator.heap >= StorageEndByte
        /\ allocator.heap % PAGE_SIZE = 0
        /\ AllocatorAllocateOk =>
            /\ BlockFirstByte < BlockEndByte
            /\ BlockEndByte <= StorageFirstByte \/ StorageEndByte <= BlockFirstByte
            /\ allocator.heap <= BlockFirstByte
            /\ BlockEndByte <= RangeEndByte
        /\ \A a \in live :
            /\ StorageEndByte <= allocator.heap + a.offset * PAGE_SIZE
            /\ allocator.heap + (a.offset + a.size) * PAGE_SIZE <= RangeEndByte

\* An allocation was returned at heap itself, the first page after the
\* tree's storage, by an allocator built at a start that is not
\* page-aligned, and its block ends at the end of the range.
C36_Witness ==
    /\ AllocatorAllocateOk
    /\ lastOp.ptr = allocator.heap
    /\ StorageFirstByte % PAGE_SIZE # 0
    /\ StorageEndByte <= lastOp.ptr
    /\ BlockEndByte = RangeEndByte
    /\ lastOp.arg >= 2

\* ------------------------------------------------------- C37
\* The blocks that the pre-order walk of the last call visited, in order:
\* the walk of allocate's search, or of free's.  A call that returns or
\* panics before its search walks nothing.
WalkOfLastCall ==
    IF lastOp.op = "allocate"
    THEN IF lastOp.arg = 0 \/ lastOp.result = "Panic"
         THEN << >>
         ELSE AllocateSearch(lastOp.pre,
                             wrapping_sub(lastOp.pre.depth,
                                          AllocateHeight(lastOp.arg))).order
    ELSE FreeSearch(lastOp.pre, lastOp.arg).order

\* The blocks a walk visits when it follows one path from the root to a leaf
\* block and looks at the sibling of each block of the path.
PathBound(t) == 2 * t.depth + 1

\* C37: every Tree::allocate and Tree::free call terminates, and the number
\* of blocks its pre-order walk visits is bounded by the depth of the tree,
\* whatever the number of live allocations, not by the block count
\* 2^(D+1) - 1: the walk visits no block twice and at most the blocks of one
\* path from the root with their siblings.
C37_WalkBoundedByDepth ==
    lastOp.op \in {"allocate", "free"} =>
        /\ \A i, j \in 1 .. Len(WalkOfLastCall) :
               i # j => WalkOfLastCall[i] # WalkOfLastCall[j]
        /\ Len(WalkOfLastCall) <= PathBound(lastOp.pre)

\* What holds of the code: the walk visits no block twice, so it ends after
\* at most block_count visits; the walk of free visits every block of a
\* tree whose leaf blocks are all allocated when the last of them is freed.
C37_WalkBoundedByBlockCount ==
    lastOp.op \in {"allocate", "free"} =>
        /\ \A i, j \in 1 .. Len(WalkOfLastCall) :
               i # j => WalkOfLastCall[i] # WalkOfLastCall[j]
        /\ Len(WalkOfLastCall) <= block_count(lastOp.pre)

\* free(7) on a tree of depth 3 with its 8 units allocated one by one: the
\* walk visited all 15 blocks.
C37_WalkOfEveryBlock ==
    /\ FreeOk
    /\ lastOp.arg = 7
    /\ lastOp.pre.depth = 3
    /\ Cardinality(lastOp.preLive) = 8
    /\ Len(WalkOfLastCall) = block_count(lastOp.pre)

\* ------------------------------------------------------- C38
\* How often task occurs in a sequence of selected tasks.
Selections(seq, task) == Cardinality({i \in 1 .. Len(seq) : seq[i] = task})

\* The tasks selected by the schedule calls after start, in rounds of four.
ScheduleRound == << 0, 1, 1, 0 >>

\* C38: Scheduler::schedule advances current_index by one modulo 4 and
\* selects task current_index >> 1, so after start() runs task 0 the
\* successive schedule() calls select the tasks 0,1,1,0,0,1,1,0,...:
\* current_index always stays in 0..3, the selected task is always 0 or 1,
\* each task is selected in exactly two of any four consecutive calls, and
\* neither task is starved: a task is selected again at the latest three
\* calls after it was.
C38_ScheduleRoundRobin ==
    /\ scheduler.current_index \in 0 .. 3
    /\ scheduler.current_index = lastOp.calls % 4
    /\ lastOp.op = "start" => lastOp.result = 0
    /\ lastOp.op = "schedule" =>
        /\ lastOp.result \in {0, 1}
        /\ lastOp.result = scheduler.current_index \div 2
        /\ lastOp.result = ScheduleRound[((lastOp.calls - 1) % 4) + 1]
    /\ Len(lastOp.recent) = IF lastOp.calls < 4 THEN lastOp.calls ELSE 4
    /\ Len(lastOp.recent) = 4 =>
        /\ Selections(lastOp.recent, 0) = 2
        /\ Selections(lastOp.recent, 1) = 2
    /\ Len(lastOp.recent) >= 3 =>
        \A task \in {0, 1} :
            \E i \in Len(lastOp.recent) - 2 .. Len(lastOp.recent) :
                lastOp.recent[i] = task

\* The eighth schedule call after start: the calls selected
\* 0,1,1,0,0,1,1,0 and current_index is back at 0.
C38_Witness ==
    /\ lastOp.op = "schedule"
    /\ lastOp.calls = 8
    /\ lastOp.recent = << 0, 1, 1, 0 >>
    /\ lastOp.result = 0
    /\ scheduler.current_index = 0

\* ------------------------------------------------------- C39
\* The threads that hold the lock.
Holders == {t \in Threads : threads[t].pc = "holding"}

\* The last step was an attempt to take the lock, in try_lock or in lock.
Attempted == lastOp.op \in {"try_lock", "lock: try_lock"}

\* C39: RawSpinlock gives mutual exclusion under any interleaving of
\* threads.  try_lock returns true only when the flag was false, and sets it
\* in the same step, so at most one thread holds the lock between a
\* successful lock or try_lock and its unlock; unlock makes the lock
\* acquirable again; and a thread spinning in lock() acquires the lock at
\* its first attempt after the holder unlocked, unless another thread's
\* attempt came first.
C39_MutualExclusion ==
    /\ Cardinality(Holders) <= 1
    /\ spinlock <=> Holders # {}
    /\ Attempted =>
        /\ lastOp.result <=> ~lastOp.pre
        /\ lastOp.result => spinlock /\ Holders = {lastOp.thread}
        /\ ~lastOp.result =>
            /\ spinlock
            /\ lastOp.thread \notin Holders
            /\ Cardinality(Holders) = 1
    /\ lastOp.op = "unlock" =>
        /\ lastOp.pre
        /\ ~spinlock
        /\ Holders = {}
        /\ try_lock(spinlock).ok
    /\ \A t \in Threads :
        (threads[t].pc = "lock" /\ ~spinlock) =>
            \E r \in {try_lock(spinlock)} : r.ok /\ r.value

\* A thread took the lock in lock() after two attempts that failed while
\* another thread held it, and a third thread is still spinning.
C39_Witness ==
    /\ lastOp.op = "lock: try_lock"
    /\ lastOp.result
    /\ threads[lastOp.thread].pc = "holding"
    /\ threads[lastOp.thread].spins = MaxSpins
    /\ \E t \in Threads \ {lastOp.thread} :
           threads[t].pc = "lock" /\ threads[t].spins >= 1

====
